---- MODULE Spec2Model ----
(***************************************************************************)
(* Model of the crypto tracker bot: the in-memory settings map and the     *)
(* embedded store (crypto_bot/database.py), the background price checker   *)
(* and the outbound send path (crypto_bot/bot.py), the handler dispatch of *)
(* the chat surface, and the admin broadcast (crypto_bot/admin.py).        *)
(*                                                                         *)
(* Numbers: prices, thresholds, balances and deposits are counted in       *)
(* tenths, so the default threshold 0.1 is 1.  Python's None is None, the  *)
(* float nan is NaN: every comparison with it is false, and the store      *)
(* keeps NULL in its place.                                                *)
(*                                                                         *)
(* Threads: the price checker runs on its own thread, the handlers on the  *)
(* main thread, one update at a time.  A thread can be preempted before    *)
(* every statement that reaches the store, the network or the shared       *)
(* dictionary; each such statement is one step.  LOGGER_ID is not set.     *)
(*                                                                         *)
(* Specifications: Spec is the running bot, SpecBroadcast the bot during   *)
(* an admin broadcast.  In both a store call is one step and succeeds (the *)
(* failure branches of database.py are not taken, except the listing       *)
(* failure that broadcast_message handles itself).  SpecApi calls the      *)
(* functions of api.py on every outcome of the HTTP request, SpecStore     *)
(* follows sequences of update_user_settings calls, SpecCalls makes one    *)
(* call of a database.py function with or without a storage failure, and  *)
(* SpecUpsert takes update_user_settings statement by statement on two     *)
(* threads.                                                                *)
(***************************************************************************)
EXTENDS Integers, Sequences, FiniteSets, TLC

None == -9

\* float("nan"), the value a settings handler parses from the text "nan".
NaN == -8

NoneStr == "<None>"

DEFAULT_THRESHOLD == 1

ADMIN_ID == 1

Chats == {1, 2}

Prices == {1, 2}

Outcomes == {"ok", "blocked", "other"}

MaxEvents == 5

VARIABLES
    user_settings,   \* bot.user_settings: chat -> settings dict
    user_states,     \* bot.user_states: chat -> awaiting_* tag
    admin_states,    \* admin.admin_states: chat -> state tag
    store,           \* table user_settings of the embedded store
    coin_prices,     \* table coin_prices of the embedded store
    pc,              \* price_checker: where the background thread is
    coin_ids,        \* price_checker: the coin ids collected for this cycle
    prices,          \* price_checker: result of get_multiple_prices
    todo,            \* price_checker: chats of the snapshot not yet processed
    cur,             \* price_checker: chat being processed
    orphan,          \* snapshot dicts that left the map: chat -> settings dict
    iterDirty,       \* the map changed size while the collect loop iterates
    mainq,           \* main thread: remaining steps of the running handler
    sent,            \* notification sends of the current cycle, per chat
    baselined,       \* chats whose baseline was recorded from a fetched price
    nEvents,         \* updates taken, cycles begun and restarts so far
    b_pc,            \* broadcast_message: "idle", "sending", "done"
    b_ids,           \* broadcast_message: user_ids still to send to
    b_all,           \* broadcast_message: chat ids in the store at the start
    b_listed,        \* broadcast_message: the listing succeeded
    b_results,       \* broadcast_message: results
    b_blocked,       \* recipients whose send failed as blocked
    got429,          \* price_checker: the cycle's price request was answered 429
    slept,           \* price_checker: the sleep that ended the last cycle, in
                     \* polling intervals (0 while a cycle runs)
    db_supplied,     \* store calls: chat -> last supplied value of each field
    ret,             \* the last library call: what it was given and returned
    upserts,         \* update_user_settings in flight: thread -> row selected
    orm_settings,    \* ORM-backed store: chat -> UserSettings row
    orm_prices,      \* ORM-backed store: the PriceData rows as created
    entered          \* admin chat -> the text process_broadcast_text stored

vars == << user_settings, user_states, admin_states, store, coin_prices, pc,
           coin_ids, prices, todo, cur, orphan, iterDirty, mainq, sent,
           baselined, nEvents,
           b_pc, b_ids, b_all, b_listed, b_results, b_blocked,
           got429, slept, db_supplied, ret, upserts, orm_settings,
           orm_prices, entered >>

checkerVars == << pc, coin_ids, prices, todo, cur, got429, slept >>

broadcastVars ==
    << b_pc, b_ids, b_all, b_listed, b_results, b_blocked, entered >>

counters == << nEvents >>

libVars == << db_supplied, ret, upserts, orm_settings, orm_prices >>

botVars == << user_settings, user_states, admin_states, store, coin_prices,
              checkerVars, orphan, iterDirty, mainq, sent, baselined,
              counters, broadcastVars >>

Abs(x) == IF x < 0 THEN -x ELSE x

\* Python's `x or d` on an optional number.
Or(x, d) == IF x = None \/ x = 0 THEN d ELSE x

\* Python's `x or d` on an optional string.
OrStr(x, d) == IF x = NoneStr \/ x = "" THEN d ELSE x

\* d without key k.
Del(d, k) == [x \in DOMAIN d \ {k} |-> d[x]]

\* d with d[k] = v.
Put(d, k, v) == [x \in DOMAIN d \cup {k} |-> IF x = k THEN v ELSE d[x]]

EmptyMap == [x \in {} |-> None]

\* No library call was made yet.
NoCall == [fn |-> "", args |-> << >>, out |-> None]

(***************************************************************************)
(* crypto_bot/database.py                                                  *)
(***************************************************************************)

\* A number as the store keeps it: sqlite3 binds a NaN as NULL.
Bind(x) == IF x = NaN THEN None ELSE x

load_all_user_settings(st) ==
    [c \in DOMAIN st |->
        [coin_id |-> st[c].coin_id,
         balance |-> st[c].balance,
         threshold |-> st[c].threshold,
         depozit |-> st[c].depozit,
         last_notified_price |-> st[c].last_notified_price]]

update_user_settings(st, chat_id, coin_id, balance, threshold, depozit, last_notified_price) ==
    IF chat_id \in DOMAIN st
    THEN LET row == st[chat_id]
         IN Put(st, chat_id,
                [coin_id |-> IF coin_id # NoneStr THEN coin_id ELSE row.coin_id,
                 balance |-> IF balance # None THEN Bind(balance)
                             ELSE row.balance,
                 threshold |-> IF threshold # None THEN Bind(threshold)
                               ELSE row.threshold,
                 depozit |-> IF depozit # None THEN Bind(depozit)
                             ELSE row.depozit,
                 last_notified_price |->
                     IF last_notified_price # None
                     THEN Bind(last_notified_price)
                     ELSE row.last_notified_price])
    ELSE Put(st, chat_id,
             [coin_id |-> OrStr(coin_id, "fpi-bank"),
              balance |-> Bind(balance),
              threshold |-> Bind(Or(threshold, DEFAULT_THRESHOLD)),
              depozit |-> Bind(Or(depozit, 0)),
              last_notified_price |-> Bind(Or(last_notified_price, 0))])

remove_user(st, chat_id) == Del(st, chat_id)

\* The dict get_user_settings returns for a chat that has a row.
get_user_settings(st, chat_id) ==
    [coin_id |-> st[chat_id].coin_id,
     balance |-> st[chat_id].balance,
     threshold |-> st[chat_id].threshold,
     depozit |-> st[chat_id].depozit,
     last_notified_price |-> st[chat_id].last_notified_price]

update_coin_price(cp, coin_id, price) == Put(cp, coin_id, price)

\* database.get_coin_price: the cached price, None without a row.
db_get_coin_price(cp, coin_id) ==
    IF coin_id \in DOMAIN cp THEN cp[coin_id] ELSE None

get_users_count(st) == Cardinality(DOMAIN st)

\* update_coin_price for every fetched price of a cycle.
SavePrices(cp, pr) ==
    [k \in DOMAIN cp \cup {x \in DOMAIN pr : pr[x] # None} |->
        IF k \in DOMAIN pr /\ pr[k] # None THEN pr[k] ELSE cp[k]]

(***************************************************************************)
(* crypto_bot/django_integration.py, the ORM-backed store                  *)
(***************************************************************************)

\* Lines 57-80.  a holds the keyword arguments, None for one not passed.
\* get_or_create inserts with kwargs.get(key, default); an existing row gets
\* every argument that is not None.
orm_update_user_settings(os, chat_id, a) ==
    IF chat_id \in DOMAIN os
    THEN Put(os, chat_id,
             [coin_id |-> IF a.coin_id # NoneStr THEN a.coin_id
                          ELSE os[chat_id].coin_id,
              balance |-> IF a.balance # None THEN a.balance
                          ELSE os[chat_id].balance,
              threshold |-> IF a.threshold # None THEN a.threshold
                            ELSE os[chat_id].threshold,
              depozit |-> IF a.depozit # None THEN a.depozit
                          ELSE os[chat_id].depozit,
              last_notified_price |->
                  IF a.last_notified_price # None THEN a.last_notified_price
                  ELSE os[chat_id].last_notified_price])
    ELSE Put(os, chat_id,
             [coin_id |-> IF a.coin_id # NoneStr THEN a.coin_id
                          ELSE "fpi-bank",
              balance |-> a.balance,
              threshold |-> IF a.threshold # None THEN a.threshold
                            ELSE DEFAULT_THRESHOLD,
              depozit |-> IF a.depozit # None THEN a.depozit ELSE 0,
              last_notified_price |-> a.last_notified_price])

\* Lines 151-160: the user row goes, and its settings row by the cascade.
orm_remove_user(os, chat_id) == Del(os, chat_id)

\* Lines 112-126.
get_all_users_settings(os) ==
    [c \in DOMAIN os |->
        [coin_id |-> os[c].coin_id,
         balance |-> os[c].balance,
         threshold |-> os[c].threshold,
         depozit |-> os[c].depozit,
         last_notified_price |-> os[c].last_notified_price]]

\* Lines 97-109: PriceData.objects.create, timestamp by auto_now_add.
orm_update_coin_price(rows, coin_id, price, timestamp) ==
    Append(rows, [coin_id |-> coin_id, price |-> price,
                  timestamp |-> timestamp])

\* Lines 129-142: the rows .order_by('-timestamp').first() can return: those
\* of the coin that no row of the coin is later than.  The order of rows of
\* equal timestamp is the database's.
NewestRows(rows, coin_id) ==
    {i \in 1..Len(rows) :
        /\ rows[i].coin_id = coin_id
        /\ \A j \in 1..Len(rows) :
               rows[j].coin_id = coin_id
                   => rows[j].timestamp <= rows[i].timestamp}

(***************************************************************************)
(* crypto_bot/api.py                                                       *)
(***************************************************************************)

CoinIds == {"fpi-bank", "bitcoin"}

\* What the body of a 200 response holds under one coin id: a dict with the
\* currency, a dict without it, a value that is no container (`currency in`
\* raises TypeError), a price float() cannot parse.
Entries ==
    {[shape |-> "price", price |-> p] : p \in Prices} \cup
    {[shape |-> s, price |-> None] :
        s \in {"no_currency", "not_a_dict", "bad_price"}}

\* response.json(): a dict, a list, or no JSON at all.  On that,
\* response.json() raises requests.JSONDecodeError, a RequestException
\* ("invalid"), or with an older requests a plain ValueError
\* ("invalid_legacy").
Bodies ==
    {[json |-> "dict", data |-> d] :
        d \in UNION {[S -> Entries] : S \in SUBSET CoinIds}} \cup
    {[json |-> j, data |-> EmptyMap] : j \in {"list", "invalid", "invalid_legacy"}}

NoBody == [json |-> "list", data |-> EmptyMap]

\* The outcomes of requests.get: a response with its status and body, or an
\* exception (Timeout, another RequestException, anything else).
Responses ==
    {[kind |-> "response", status |-> 200, body |-> b] : b \in Bodies} \cup
    {[kind |-> "response", status |-> st, body |-> NoBody] : st \in {429, 500}} \cup
    {[kind |-> k, status |-> 0, body |-> NoBody] :
        k \in {"Timeout", "RequestException", "Exception"}}

Returned(price, error_msg) ==
    [price |-> price, error_msg |-> error_msg, raised |-> ""]

Raised(exception) ==
    [price |-> None, error_msg |-> "", raised |-> exception]

\* Lines 65-77 of get_coin_price: the body of a 200 response.
PriceOfBody(coin_id, body) ==
    IF body.json = "invalid" THEN Raised("RequestException")
    ELSE IF body.json = "invalid_legacy" THEN Raised("Exception")
    ELSE IF body.json = "list" \/ coin_id \notin DOMAIN body.data
         THEN Returned(None, "bad_structure")
    ELSE LET e == body.data[coin_id]
         IN IF e.shape = "price" THEN Returned(e.price, "")
            ELSE IF e.shape = "no_currency" THEN Returned(None, "bad_structure")
            ELSE Raised("Exception")

\* Lines 65-86: the try block of get_coin_price, with what it raises.
TryGetCoinPrice(coin_id, resp) ==
    IF resp.kind # "response" THEN Raised(resp.kind)
    ELSE IF resp.status = 200 THEN PriceOfBody(coin_id, resp.body)
    ELSE IF resp.status = 429 THEN Raised("RateLimitError")
    ELSE Raised("APIResponseError")

\* api.get_coin_price, lines 33-100.  The handlers of lines 88-100 follow
\* the try block: Timeout and RequestException become APIConnectionError,
\* and `except Exception` turns everything else, RateLimitError and
\* APIResponseError of lines 81 and 85 included, into a returned message.
get_coin_price(coin_id, resp) ==
    LET t == TryGetCoinPrice(coin_id, resp)
    IN IF t.raised \in {"Timeout", "RequestException"}
       THEN Raised("APIConnectionError")
       ELSE IF t.raised # "" THEN Returned(None, "unexpected")
       ELSE t

\* What the f-string of an error message of get_coin_price interpolates:
\* line 77 the parsed body ({data}), line 98 the text of the exception ({e}),
\* which for APIResponseError is the status and response.text (line 83).
Interpolated(error_msg) ==
    CASE error_msg = "bad_structure" -> {"body"}
      [] error_msg = "unexpected" -> {"exception"}
      [] OTHER -> {}

AllNone(ids) == [c \in ids |-> None]

\* Lines 137-142 of get_multiple_prices: the loop over the requested ids
\* raises on an entry that is no container or holds no number.
LoopRaises(ids, data) ==
    \E c \in ids \cap DOMAIN data :
        data[c].shape \in {"not_a_dict", "bad_price"}

\* Variant of get_multiple_prices that keeps the ids read before the loop
\* raised, and no others.
get_multiple_prices_KeepPartial(ids, resp) ==
    IF resp.kind # "response" \/ resp.status # 200
       \/ resp.body.json \in {"invalid", "invalid_legacy"}
    THEN AllNone(ids)
    ELSE IF resp.body.json = "list" THEN AllNone(ids)
    ELSE [c \in {x \in ids : x \notin DOMAIN resp.body.data
                                  \/ resp.body.data[x].shape
                                       \in {"price", "no_currency"}} |->
             IF c \in DOMAIN resp.body.data /\ resp.body.data[c].shape = "price"
             THEN resp.body.data[c].price ELSE None]

\* api.get_multiple_prices, lines 103-152.
get_multiple_prices(ids, resp) ==
    IF resp.kind # "response" \/ resp.status # 200
       \/ resp.body.json \in {"invalid", "invalid_legacy"}
    THEN AllNone(ids)
    ELSE IF resp.body.json = "list" THEN AllNone(ids)
    ELSE IF LoopRaises(ids, resp.body.data) THEN AllNone(ids)
    ELSE [c \in ids |->
             IF c \in DOMAIN resp.body.data /\ resp.body.data[c].shape = "price"
             THEN resp.body.data[c].price ELSE None]

(***************************************************************************)
(* The in-memory map                                                       *)
(***************************************************************************)

DefaultSettings ==
    [coin_id |-> "fpi-bank", balance |-> None, threshold |-> DEFAULT_THRESHOLD,
     depozit |-> 0, last_notified_price |-> None]

\* The dict the snapshot of the running cycle holds for chat c: the live
\* dict, unless it was deleted from the map after the snapshot was taken.
SettingsOf(c) == IF c \in DOMAIN orphan THEN orphan[c] ELSE user_settings[c]

\* orphan after `del user_settings[c]`.
OrphanAfterDel(c) ==
    IF c \in todo /\ c \notin DOMAIN orphan /\ c \in DOMAIN user_settings
    THEN Put(orphan, c, user_settings[c])
    ELSE orphan

(***************************************************************************)
(* crypto_bot/bot.py: price_checker, the background thread                 *)
(***************************************************************************)

NoCur == [chat |-> None, price |-> None]

ZeroSent == [c \in Chats |-> 0]

\* Variant of the test of line 144 that takes the baseline branch only when
\* both values are absent.
BaselineCase_BothAbsent(balance, last_notified_price) ==
    balance = None /\ last_notified_price = None

\* bot.py line 144: the baseline-setting case.
BaselineCase(balance, last_notified_price) ==
    balance = None \/ last_notified_price = None

\* Variant of the test of line 151 with a strict comparison.
Crosses_Strict(current_price, last_notified_price, threshold) ==
    threshold # NaN /\ Abs(current_price - last_notified_price) > threshold

\* Variant of the test of line 151 with the comparison turned round.
Crosses_Inverted(current_price, last_notified_price, threshold) ==
    threshold # NaN /\ Abs(current_price - last_notified_price) <= threshold

\* bot.py line 151: the threshold test, on numbers.
Crosses(current_price, last_notified_price, threshold) ==
    threshold # NaN /\ Abs(current_price - last_notified_price) >= threshold

\* Lines 151 and 166 raise TypeError on a threshold or a deposit that is
\* None: `abs(...) >= None`, and `None > 0` once the threshold is crossed.
RaisesTypeError(current_price, last_notified_price, threshold, depozit) ==
    \/ threshold = None
    \/ Crosses(current_price, last_notified_price, threshold) /\ depozit = None

\* bot.py lines 133-138: the price the cycle holds for the chat's coin.
PriceFor(c) ==
    LET coin == SettingsOf(c).coin_id
    IN IF coin \in DOMAIN prices THEN prices[coin] ELSE None

\* The locals of a cycle, as a cycle that has not begun holds them.
ResetCycle ==
    /\ coin_ids' = {}
    /\ prices' = EmptyMap
    /\ todo' = {}
    /\ cur' = NoCur
    /\ orphan' = EmptyMap
    /\ sent' = ZeroSent
    /\ iterDirty' = FALSE

\* Variant in which the exception that abandons a cycle leaves the loop
\* `while True` too, and the thread ends.
EndCycle_ThreadEnds ==
    /\ pc' = IF pc = "loop" /\ todo # {} THEN "ended" ELSE "top"
    /\ slept' = 1
    /\ got429' = FALSE
    /\ ResetCycle

\* The cycle ends (normally at line 204, by the `continue` of line 128, or
\* abandoned by an exception caught at line 195) and the loop goes back to
\* the top after time.sleep(RETRY_PERIOD).  The handler of line 189, which
\* sleeps twice as long, needs api.RateLimitError out of the try block, and
\* no call in it raises that.
EndCycle ==
    /\ pc' = "top"
    /\ slept' = 1
    /\ got429' = FALSE
    /\ ResetCycle

\* Lines 120-121: the loop over user_settings.items() starts.
CheckerCollectBegin ==
    /\ pc = "top"
    /\ nEvents < MaxEvents
    /\ pc' = "collecting"
    /\ slept' = 0
    /\ iterDirty' = FALSE
    /\ nEvents' = nEvents + 1
    /\ UNCHANGED << user_settings, user_states, admin_states, store,
                    coin_prices, coin_ids, prices, todo, cur, orphan, mainq,
                    sent, baselined, got429, broadcastVars, libVars >>

\* Lines 121-128: the loop ends: RuntimeError when the dict changed size
\* under it, the early `continue` when no coin is tracked.
CheckerCollectEnd ==
    /\ pc = "collecting"
    /\ IF iterDirty \/ DOMAIN user_settings = {}
       THEN EndCycle
       ELSE /\ coin_ids' = {user_settings[c].coin_id : c \in DOMAIN user_settings}
            /\ pc' = "fetch"
            /\ UNCHANGED << prices, todo, cur, orphan, sent, iterDirty, got429,
                            slept >>
    /\ UNCHANGED << user_settings, user_states, admin_states, store,
                    coin_prices, mainq, baselined, counters, broadcastVars,
                    libVars >>

\* Lines 130-132: get_multiple_prices, given what requests.get came to, then
\* the snapshot list(user_settings.items()).
CheckerFetch(resp) ==
    /\ pc = "fetch"
    /\ prices' = get_multiple_prices(coin_ids, resp)
    /\ got429' = (resp.kind = "response" /\ resp.status = 429)
    /\ slept' = slept
    /\ todo' = DOMAIN user_settings
    /\ orphan' = EmptyMap
    /\ pc' = "loop"
    /\ UNCHANGED << user_settings, user_states, admin_states, store,
                    coin_prices, coin_ids, cur, iterDirty, mainq, sent,
                    baselined, counters, broadcastVars, libVars >>

\* Lines 133-136: no price for the chat's coin.
CheckerNoPrice(c) ==
    /\ pc = "loop"
    /\ c \in todo
    /\ PriceFor(c) = None
    /\ todo' = todo \ {c}
    /\ UNCHANGED << user_settings, user_states, admin_states, store,
                    coin_prices, pc, coin_ids, prices, cur, orphan, iterDirty,
                    mainq, sent, baselined, counters, got429, slept,
                    broadcastVars, libVars >>

\* Lines 138-146: baseline setting, the write to the in-memory map
\* (KeyError when the chat left the map after the snapshot).
CheckerBaseline(c) ==
    /\ pc = "loop"
    /\ c \in todo
    /\ PriceFor(c) # None
    /\ BaselineCase(SettingsOf(c).balance, SettingsOf(c).last_notified_price)
    /\ IF c \in DOMAIN user_settings
       THEN /\ user_settings' =
                [user_settings EXCEPT ![c].last_notified_price = PriceFor(c)]
            /\ baselined' = baselined \cup {c}
            /\ cur' = [chat |-> c, price |-> PriceFor(c)]
            /\ todo' = todo \ {c}
            /\ pc' = "base_db"
            /\ UNCHANGED << coin_ids, prices, orphan, sent, iterDirty, got429,
                            slept >>
       ELSE /\ EndCycle
            /\ UNCHANGED << user_settings, baselined >>
    /\ UNCHANGED << user_states, admin_states, store, coin_prices, mainq,
                    counters, broadcastVars, libVars >>

\* Lines 147-149: baseline setting, the write to the store.
CheckerBaselineDb ==
    /\ pc = "base_db"
    /\ store' = update_user_settings(store, cur.chat, NoneStr, None, None,
                                     None, cur.price)
    /\ pc' = "loop"
    /\ cur' = NoCur
    /\ UNCHANGED << user_settings, user_states, admin_states, coin_prices,
                    coin_ids, prices, todo, orphan, iterDirty, mainq, sent,
                    baselined, counters, got429, slept,
                    broadcastVars, libVars >>

\* Variant in which a delivery that failed for another reason than a block
\* leaves the baseline as it was and goes on to the next chat.
CheckerNotifySend_FailureKeepsBaseline(c, outcome) ==
    /\ pc = "loop"
    /\ c \in todo
    /\ PriceFor(c) # None
    /\ ~BaselineCase(SettingsOf(c).balance, SettingsOf(c).last_notified_price)
    /\ ~RaisesTypeError(PriceFor(c), SettingsOf(c).last_notified_price,
                        SettingsOf(c).threshold, SettingsOf(c).depozit)
    /\ Crosses(PriceFor(c), SettingsOf(c).last_notified_price,
               SettingsOf(c).threshold)
    /\ sent' = [sent EXCEPT ![c] = @ + 1]
    /\ cur' = IF outcome = "other" THEN NoCur
              ELSE [chat |-> c, price |-> PriceFor(c)]
    /\ todo' = todo \ {c}
    /\ pc' = CASE outcome = "blocked" -> "n_remove"
               [] outcome = "other" -> "loop"
               [] OTHER -> "n_check"
    /\ UNCHANGED << user_settings, user_states, admin_states, store,
                    coin_prices, coin_ids, prices, orphan, iterDirty, mainq,
                    baselined, counters, got429, slept,
                    broadcastVars, libVars >>

\* Lines 151-177 and 88-90: the threshold is crossed, bot.send_message.
CheckerNotifySend(c, outcome) ==
    /\ pc = "loop"
    /\ c \in todo
    /\ PriceFor(c) # None
    /\ ~BaselineCase(SettingsOf(c).balance, SettingsOf(c).last_notified_price)
    /\ ~RaisesTypeError(PriceFor(c), SettingsOf(c).last_notified_price,
                        SettingsOf(c).threshold, SettingsOf(c).depozit)
    /\ Crosses(PriceFor(c), SettingsOf(c).last_notified_price,
               SettingsOf(c).threshold)
    /\ sent' = [sent EXCEPT ![c] = @ + 1]
    /\ cur' = [chat |-> c, price |-> PriceFor(c)]
    /\ todo' = todo \ {c}
    /\ pc' = IF outcome = "blocked" THEN "n_remove" ELSE "n_check"
    /\ UNCHANGED << user_settings, user_states, admin_states, store,
                    coin_prices, coin_ids, prices, orphan, iterDirty, mainq,
                    baselined, counters, got429, slept,
                    broadcastVars, libVars >>

\* Line 151 leads to no send: the delta is below the threshold, or the
\* comparison of line 151 or 166 raises TypeError, which leaves the loop over
\* the chats for the handler of line 195 and ends the cycle.
CheckerBelow(c) ==
    /\ pc = "loop"
    /\ c \in todo
    /\ PriceFor(c) # None
    /\ ~BaselineCase(SettingsOf(c).balance, SettingsOf(c).last_notified_price)
    /\ IF RaisesTypeError(PriceFor(c), SettingsOf(c).last_notified_price,
                          SettingsOf(c).threshold, SettingsOf(c).depozit)
       THEN EndCycle
       ELSE /\ ~Crosses(PriceFor(c), SettingsOf(c).last_notified_price,
                        SettingsOf(c).threshold)
            /\ todo' = todo \ {c}
            /\ UNCHANGED << pc, coin_ids, prices, cur, orphan, iterDirty,
                            sent, got429, slept >>
    /\ UNCHANGED << user_settings, user_states, admin_states, store,
                    coin_prices, mainq, baselined, counters, broadcastVars,
                    libVars >>

\* send_message lines 91-95: blocked by the user, db.remove_user.
CheckerRemoveUser ==
    /\ pc = "n_remove"
    /\ store' = remove_user(store, cur.chat)
    /\ pc' = "n_del"
    /\ UNCHANGED << user_settings, user_states, admin_states, coin_prices,
                    coin_ids, prices, todo, cur, orphan, iterDirty, mainq,
                    sent, baselined, counters, got429, slept,
                    broadcastVars, libVars >>

\* send_message lines 97-98: the chat leaves the in-memory map.
CheckerDelUser ==
    /\ pc = "n_del"
    /\ user_settings' = Del(user_settings, cur.chat)
    /\ orphan' = OrphanAfterDel(cur.chat)
    /\ pc' = "n_check"
    /\ UNCHANGED << user_states, admin_states, store, coin_prices, coin_ids,
                    prices, todo, cur, iterDirty, mainq, sent, baselined,
                    counters, got429, slept,
                    broadcastVars, libVars >>

\* Lines 179-181: the new baseline in the in-memory map, when the chat is
\* still in it after the send.
CheckerNotifyMem ==
    /\ pc = "n_check"
    /\ IF cur.chat \in DOMAIN user_settings
       THEN /\ user_settings' =
                [user_settings EXCEPT ![cur.chat].last_notified_price = cur.price]
            /\ baselined' = baselined \cup {cur.chat}
            /\ pc' = "n_db"
            /\ cur' = cur
       ELSE /\ pc' = "loop"
            /\ cur' = NoCur
            /\ UNCHANGED << user_settings, baselined >>
    /\ UNCHANGED << user_states, admin_states, store, coin_prices, coin_ids,
                    prices, todo, orphan, iterDirty, mainq, sent, counters,
                    got429, slept,
                    broadcastVars, libVars >>

\* Lines 182-183: the new baseline in the store.
CheckerNotifyDb ==
    /\ pc = "n_db"
    /\ store' = update_user_settings(store, cur.chat, NoneStr, None, None,
                                     None, cur.price)
    /\ pc' = "loop"
    /\ cur' = NoCur
    /\ UNCHANGED << user_settings, user_states, admin_states, coin_prices,
                    coin_ids, prices, todo, orphan, iterDirty, mainq, sent,
                    baselined, counters, got429, slept,
                    broadcastVars, libVars >>

\* Lines 185-187 and 204: every fetched price goes to the cache, then sleep.
CheckerSavePrices ==
    /\ pc = "loop"
    /\ todo = {}
    /\ coin_prices' = SavePrices(coin_prices, prices)
    /\ EndCycle
    /\ UNCHANGED << user_settings, user_states, admin_states, store, mainq,
                    baselined, counters, broadcastVars, libVars >>

Checker ==
    \/ CheckerCollectBegin
    \/ CheckerCollectEnd
    \/ \E resp \in Responses : CheckerFetch(resp)
    \/ \E c \in Chats : CheckerNoPrice(c)
    \/ \E c \in Chats : CheckerBaseline(c)
    \/ CheckerBaselineDb
    \/ \E c \in Chats, o \in Outcomes : CheckerNotifySend(c, o)
    \/ \E c \in Chats : CheckerBelow(c)
    \/ CheckerRemoveUser
    \/ CheckerDelUser
    \/ CheckerNotifyMem
    \/ CheckerNotifyDb
    \/ CheckerSavePrices

(***************************************************************************)
(* The chat surface: texts, callback data, and the registered handlers     *)
(***************************************************************************)

Texts == {"/start", "/menu", "/MENU", "/admin", "/cancel", "abc", "y",
          "0", "0.1", "0,2", "-0.1", "nan"}

Datas == {"current_info", "set_balance", "set_threshold", "set_deposit",
          "price_alerts", "help_info", "back_to_menu", "open_menu",
          "admin_broadcast", "admin_stats", "admin_back_to_menu"}

\* The callback data that start with "admin_": the three buttons of the
\* admin keyboards, and the two confirmation identifiers no keyboard offers.
AdminDatas == {"admin_broadcast", "admin_stats", "admin_back_to_menu",
               "admin_confirm_broadcast", "admin_cancel_broadcast"}

\* The texts of the broadcast conversation.  A name in angle brackets stands
\* for the Cyrillic word it transliterates.
AdminTexts == {"/admin", " /Cancel ", " Y ", "<da>", "n", "abc", ":y",
               "a:b:c"}

\* admin.py lines 214 and 205: the replies that confirm and that cancel.
Affirmative == {"y", "<d>", "<da>", "yes", "ok", "<ok>"}

Negative == {"n", "<n>", "<net>", "no", "cancel", "<otmena>"}

\* The command a text starts with ("" when it is no command), as the
\* commands=[...] filter of a message handler reads it.
extract_command(text) ==
    CASE text = "/start" -> "start"
      [] text = "/menu" -> "menu"
      [] text = "/MENU" -> "MENU"
      [] text = "/admin" -> "admin"
      [] text = "/cancel" -> "cancel"
      [] OTHER -> ""

\* str.lower() on the texts of the model.
lower(text) ==
    CASE text = "/MENU" -> "/menu"
      [] text = "/Cancel" -> "/cancel"
      [] text = "Y" -> "y"
      [] OTHER -> text

\* str.strip() on the texts of the model.
strip(text) ==
    CASE text = " /Cancel " -> "/Cancel"
      [] text = " Y " -> "Y"
      [] OTHER -> text

\* A text as the sequence of its pieces: each ':' is a piece, and so is each
\* run of other characters.
Chars(text) ==
    CASE text = ":y" -> << ":", "y" >>
      [] text = "a:b:c" -> << "a", ":", "b", ":", "c" >>
      [] OTHER -> << text >>

\* str.startswith.
startswith(s, prefix) ==
    Len(s) >= Len(prefix) /\ SubSeq(s, 1, Len(prefix)) = prefix

\* The positions of ':' in s.
Colons(s) == {i \in 1..Len(s) : s[i] = ":"}

\* s.split(":", 1): s is cut at its first ':' only.
split_1(s) ==
    IF Colons(s) = {} THEN << s >>
    ELSE LET i == CHOOSE k \in Colons(s) : \A j \in Colons(s) : k <= j
         IN << SubSeq(s, 1, i - 1), SubSeq(s, i + 1, Len(s)) >>

\* s.split(":"): s is cut at every ':'.
RECURSIVE split(_)
split(s) ==
    IF Colons(s) = {} THEN << s >>
    ELSE << split_1(s)[1] >> \o split(split_1(s)[2])

\* admin.py line 106.
awaiting_broadcast_text == << "awaiting_broadcast_text" >>

\* The prefix of the state of line 178, as lines 182 and 199 test it.
confirming_prefix == << "confirming_broadcast", ":" >>

\* admin.py line 178: f"confirming_broadcast:{broadcast_text}".
confirming_broadcast(broadcast_text) ==
    confirming_prefix \o Chars(broadcast_text)

\* Variant of line 217 without the limit of one split.
broadcast_text_of_SplitEvery(state) ==
    split(state)[2]

\* admin.py line 217: state.split(":", 1)[1].
broadcast_text_of(state) ==
    split_1(state)[2]

\* float(text.replace(',', '.')) raises ValueError.
IsNumber(text) == text \in {"0", "0.1", "0,2", "-0.1", "nan"}

\* float(text.replace(',', '.')), in tenths.
float(text) ==
    CASE text = "0" -> 0
      [] text = "0.1" -> 1
      [] text = "0,2" -> 2
      [] text = "-0.1" -> -1
      [] text = "nan" -> NaN

\* admin.py line 25.
check_admin(chat_id) == ADMIN_ID # None /\ chat_id = ADMIN_ID

StateOf(c) == IF c \in DOMAIN user_states THEN user_states[c] ELSE ""

\* admin_states.get(chat_id, "").
AdminStateOf(c) ==
    IF c \in DOMAIN admin_states THEN admin_states[c] ELSE << >>

\* Variant in which the handlers of the awaited values are registered before
\* the welcome handler.
MessageHandlers_ValuesFirst ==
    << "set_balance", "set_threshold", "set_depozit", "send_welcome",
       "echo_all", "admin_command", "process_broadcast_text",
       "process_broadcast_confirmation_text" >>

\* The message handlers in the order the decorators register them: those of
\* bot.py as the module is imported, then those of register_admin_handlers,
\* which bot.py calls on its last line.
MessageHandlers ==
    << "send_welcome", "set_balance", "set_threshold", "set_depozit",
       "echo_all", "admin_command", "process_broadcast_text",
       "process_broadcast_confirmation_text" >>

\* The filter each message handler was registered with.
MessageFilter(h, c, text) ==
    CASE h = "send_welcome" -> extract_command(text) \in {"start", "menu"}
      [] h = "set_balance" -> StateOf(c) = "awaiting_balance"
      [] h = "set_threshold" -> StateOf(c) = "awaiting_threshold"
      [] h = "set_depozit" -> StateOf(c) = "awaiting_depozit"
      [] h = "echo_all" -> TRUE
      [] h = "admin_command" -> extract_command(text) = "admin"
      [] h = "process_broadcast_text" ->
            AdminStateOf(c) = awaiting_broadcast_text
      [] h = "process_broadcast_confirmation_text" ->
            startswith(AdminStateOf(c), confirming_prefix)

\* The callback-query handlers in registration order.
CallbackHandlers ==
    << "handle_callback_query", "back_to_menu", "open_menu_from_button",
       "admin_callback_handler" >>

\* The filter each callback-query handler was registered with.
CallbackFilter(h, data) ==
    CASE h = "handle_callback_query" -> TRUE
      [] h = "back_to_menu" -> data = "back_to_menu"
      [] h = "open_menu_from_button" -> data = "open_menu"
      [] h = "admin_callback_handler" -> data \in AdminDatas

\* The bot runs the first registered handler whose filter passes.
FirstMatch(handlers, passing) ==
    LET hits == {i \in 1..Len(handlers) : handlers[i] \in passing}
    IN IF hits = {} THEN "none"
       ELSE handlers[CHOOSE i \in hits : \A j \in hits : i <= j]

DispatchMessage(c, text) ==
    LET passing == {MessageHandlers[i] : i \in
                       {j \in 1..Len(MessageHandlers) :
                           MessageFilter(MessageHandlers[j], c, text)}}
    IN FirstMatch(MessageHandlers, passing)

DispatchCallback(c, data) ==
    LET passing == {CallbackHandlers[i] : i \in
                       {j \in 1..Len(CallbackHandlers) :
                           CallbackFilter(CallbackHandlers[j], data)}}
    IN FirstMatch(CallbackHandlers, passing)

(***************************************************************************)
(* Handlers.  A handler's value is what its first step leaves: the         *)
(* in-memory maps, and q, the statements it still has to run, each of      *)
(* which reaches the store or the network.                                 *)
(***************************************************************************)

Step(op, c, f, v, msg) == [op |-> op, chat |-> c, f |-> f, v |-> v, msg |-> msg]

Send(c, msg) == Step("send", c, "", None, msg)

Effect(settings, states, admin, q) ==
    [settings |-> settings, states |-> states, admin |-> admin, q |-> q]

Stay(q) == Effect(user_settings, user_states, admin_states, q)

\* bot.py lines 207-235.
send_welcome(c) ==
    IF c \notin DOMAIN user_settings
    THEN Effect(Put(user_settings, c, DefaultSettings), user_states,
                admin_states,
                << Step("db_update", c, "", None, ""), Send(c, "welcome") >>)
    ELSE Stay(<< Send(c, "welcome") >>)

\* Variant of the range test that lets a zero balance or threshold pass.
Rejected_NegativeOnly(field, value) ==
    value # NaN /\ value < 0

\* The range test of set_balance, set_threshold (<= 0) and set_depozit (< 0).
Rejected(field, value) ==
    /\ value # NaN
    /\ IF field = "depozit" THEN value < 0 ELSE value <= 0

\* bot.py lines 483-579: set_balance, set_threshold, set_depozit.  The write
\* to user_settings[chat_id] raises KeyError for a chat without a record.
set_value(c, field, text) ==
    IF ~IsNumber(text) THEN Stay(<< Send(c, "not_a_number") >>)
    ELSE IF Rejected(field, float(text)) THEN Stay(<< Send(c, "out_of_range") >>)
    ELSE IF c \notin DOMAIN user_settings THEN Stay(<< >>)
    ELSE Effect([user_settings EXCEPT ![c][field] = float(text)],
                user_states, admin_states,
                << Step("db_update", c, field, float(text), ""),
                   Send(c, "success"), Send(c, "menu"),
                   Step("pop_state", c, field, float(text), "") >>)

\* bot.py lines 592-611.
echo_all(c, text) ==
    IF lower(text) = "/menu" THEN send_welcome(c)
    ELSE IF c \in DOMAIN user_states THEN Stay(<< >>)
    ELSE Stay(<< Send(c, "not_understood"), Send(c, "open_menu_button") >>)

\* admin.py lines 60-80.
admin_command(c) ==
    IF ~check_admin(c) THEN Stay(<< Send(c, "no_permission") >>)
    ELSE Stay(<< Send(c, "admin_panel") >>)

\* admin.py lines 152-179.
process_broadcast_text(c, text) ==
    IF lower(strip(text)) = "/cancel"
    THEN Effect(user_settings, user_states, Del(admin_states, c),
                << Send(c, "broadcast_cancelled") >>)
    ELSE Effect(user_settings, user_states,
                Put(admin_states, c, confirming_broadcast(text)),
                << Send(c, "confirm_broadcast") >>)

\* Variant of lines 205-244 that takes every reply but a cancelling one for
\* a confirmation.
process_broadcast_confirmation_text_ConfirmsByDefault(c, text) ==
    IF lower(strip(text)) \in Negative
    THEN Effect(user_settings, user_states, Del(admin_states, c),
                << Send(c, "broadcast_cancelled") >>)
    ELSE Stay(<< Send(c, "broadcast_starting"),
                 Step("broadcast", c, "", None, ""),
                 Send(c, "broadcast_report"),
                 Step("pop_admin_state", c, "", None, "") >>)

\* Variant of lines 241-244 that drops the state on a reply it does not
\* understand.
process_broadcast_confirmation_text_DropsState(c, text) ==
    LET response == lower(strip(text))
    IN IF response \in Affirmative
       THEN Stay(<< Send(c, "broadcast_starting"),
                    Step("broadcast", c, "", None, ""),
                    Send(c, "broadcast_report"),
                    Step("pop_admin_state", c, "", None, "") >>)
       ELSE Effect(user_settings, user_states, Del(admin_states, c),
                   << Send(c, "reply_not_understood") >>)

\* admin.py lines 181-244.  On a confirming reply the handler announces the
\* broadcast, calls broadcast_message, reports, and only then drops the state.
process_broadcast_confirmation_text(c, text) ==
    LET response == lower(strip(text))
    IN IF ~check_admin(c) THEN Stay(<< Send(c, "no_permission") >>)
       ELSE IF ~startswith(AdminStateOf(c), confirming_prefix)
       THEN Stay(<< Send(c, "session_expired") >>)
       ELSE IF response \in Negative
       THEN Effect(user_settings, user_states, Del(admin_states, c),
                   << Send(c, "broadcast_cancelled") >>)
       ELSE IF response \in Affirmative
       THEN Stay(<< Send(c, "broadcast_starting"),
                    Step("broadcast", c, "", None, ""),
                    Send(c, "broadcast_report"),
                    Step("pop_admin_state", c, "", None, "") >>)
       ELSE Stay(<< Send(c, "reply_not_understood") >>)

\* The handler h is run on a message; no handler runs when none matched.
RunMessageHandler(h, c, text) ==
    CASE h = "send_welcome" -> send_welcome(c)
      [] h = "set_balance" -> set_value(c, "balance", text)
      [] h = "set_threshold" -> set_value(c, "threshold", text)
      [] h = "set_depozit" -> set_value(c, "depozit", text)
      [] h = "echo_all" -> echo_all(c, text)
      [] h = "admin_command" -> admin_command(c)
      [] h = "process_broadcast_text" -> process_broadcast_text(c, text)
      [] h = "process_broadcast_confirmation_text" ->
            process_broadcast_confirmation_text(c, text)
      [] OTHER -> Stay(<< >>)

HandleMessage(c, text) == RunMessageHandler(DispatchMessage(c, text), c, text)

\* bot.py lines 297-363: request_balance, request_threshold, request_depozit.
\* The prompt is an edit of the menu message; when the edit raises, the state
\* is not set.
request_value(c, state, edited) ==
    IF edited
    THEN Effect(user_settings, Put(user_states, c, state), admin_states, << >>)
    ELSE Stay(<< >>)

\* bot.py lines 468-480.
back_to_menu(c) ==
    Effect(user_settings, Del(user_states, c), admin_states, << >>)

\* bot.py lines 582-589.
open_menu_from_button(c) == Stay(<< Send(c, "menu") >>)

\* bot.py lines 238-294.  answer_callback_query of line 244 comes before the
\* branches: when it raises, none runs.  current_info, price_alerts and
\* help_info edit the menu message and change nothing; other data falls
\* through every branch.
handle_callback_query(c, data, edited) ==
    IF ~edited /\ data \in {"back_to_menu", "open_menu"} THEN Stay(<< >>)
    ELSE
    CASE data = "set_balance" -> request_value(c, "awaiting_balance", edited)
      [] data = "set_threshold" -> request_value(c, "awaiting_threshold", edited)
      [] data = "set_deposit" -> request_value(c, "awaiting_depozit", edited)
      [] data = "back_to_menu" -> back_to_menu(c)
      [] data = "open_menu" -> open_menu_from_button(c)
      [] OTHER -> Stay(<< >>)

\* admin.py lines 82-150.  The refusal is the text of the callback answer.
\* answer_callback_query of line 97 comes before the state is set: when it
\* raises, the state is not set.  No branch tests any other data than the
\* three of the admin keyboards.
admin_callback_handler(c, data, answered) ==
    IF ~check_admin(c) THEN Stay(<< >>)
    ELSE IF data = "admin_broadcast" /\ answered
    THEN Effect(user_settings, user_states,
                Put(admin_states, c, awaiting_broadcast_text), << >>)
    ELSE Stay(<< >>)

HandleCallback(c, data, edited) ==
    LET h == DispatchCallback(c, data)
    IN CASE h = "handle_callback_query" -> handle_callback_query(c, data, edited)
         [] h = "back_to_menu" -> back_to_menu(c)
         [] h = "open_menu_from_button" -> open_menu_from_button(c)
         [] h = "admin_callback_handler" ->
               admin_callback_handler(c, data, edited)

(***************************************************************************)
(* The main thread: one update at a time, then the handler's statements    *)
(***************************************************************************)

\* The first step of a handler, up to its first store or network call.
Apply(e) ==
    /\ user_settings' = e.settings
    /\ user_states' = e.states
    /\ admin_states' = e.admin
    /\ mainq' = e.q
    /\ iterDirty' = (iterDirty \/ (pc = "collecting"
                                   /\ DOMAIN e.settings # DOMAIN user_settings))
    /\ baselined' = baselined \ (DOMAIN e.settings \ DOMAIN user_settings)
    /\ nEvents' = nEvents + 1
    /\ UNCHANGED << store, coin_prices, checkerVars, orphan, sent,
                    broadcastVars, libVars >>

\* A text message arrives from chat c and is dispatched.
MainMessage(c, text) ==
    /\ mainq = << >>
    /\ b_pc = "idle"
    /\ nEvents < MaxEvents
    /\ Apply(HandleMessage(c, text))

\* A button press arrives from chat c and is dispatched.
MainCallback(c, data, edited) ==
    /\ mainq = << >>
    /\ b_pc = "idle"
    /\ nEvents < MaxEvents
    /\ Apply(HandleCallback(c, data, edited))

\* What a settings handler passes to db.update_user_settings.
Arg(step, field) == IF step.f = field THEN step.v ELSE None

\* The handler's call of db.update_user_settings.
MainDbUpdate ==
    /\ mainq # << >>
    /\ Head(mainq).op = "db_update"
    /\ store' = update_user_settings(store, Head(mainq).chat, NoneStr,
                                     Arg(Head(mainq), "balance"),
                                     Arg(Head(mainq), "threshold"),
                                     Arg(Head(mainq), "depozit"), None)
    /\ mainq' = Tail(mainq)
    /\ UNCHANGED << user_settings, user_states, admin_states, coin_prices,
                    checkerVars, orphan, iterDirty, sent, baselined, counters,
                    broadcastVars, libVars >>

\* send_message lines 88-108: what is left to run after bot.send_message
\* returned or raised, for the message msg.
AfterSend(c, msg, outcome, rest) ==
    IF outcome = "blocked"
    THEN << Step("remove_user", c, "", None, msg),
            Step("del_user", c, "", None, msg) >> \o rest
    ELSE rest

\* user_states.pop(chat_id, None), the last statement of a settings handler,
\* runs with the statement before it: no other thread reads user_states.
PopsNext(q) == q # << >> /\ Head(q).op = "pop_state"

AfterPop(q) == IF PopsNext(q) THEN Tail(q) ELSE q

StatesAfterPop(q) ==
    IF PopsNext(q) THEN Del(user_states, Head(q).chat) ELSE user_states

\* The handler's call of send_message: bot.send_message.
MainSend(outcome) ==
    /\ mainq # << >>
    /\ Head(mainq).op = "send"
    /\ LET q == AfterSend(Head(mainq).chat, Head(mainq).msg, outcome,
                          Tail(mainq))
       IN /\ mainq' = AfterPop(q)
          /\ user_states' = StatesAfterPop(q)
    /\ UNCHANGED << user_settings, admin_states, store, coin_prices,
                    checkerVars, orphan, iterDirty, sent, baselined, counters,
                    broadcastVars, libVars >>

\* send_message line 95: db.remove_user.
MainRemoveUser ==
    /\ mainq # << >>
    /\ Head(mainq).op = "remove_user"
    /\ store' = remove_user(store, Head(mainq).chat)
    /\ mainq' = Tail(mainq)
    /\ UNCHANGED << user_settings, user_states, admin_states, coin_prices,
                    checkerVars, orphan, iterDirty, sent, baselined, counters,
                    broadcastVars, libVars >>

\* send_message lines 97-98: the chat leaves the in-memory map.
MainDelUser ==
    /\ mainq # << >>
    /\ Head(mainq).op = "del_user"
    /\ user_settings' = Del(user_settings, Head(mainq).chat)
    /\ orphan' = OrphanAfterDel(Head(mainq).chat)
    /\ iterDirty' = (iterDirty \/ (pc = "collecting"
                                   /\ Head(mainq).chat \in DOMAIN user_settings))
    /\ mainq' = AfterPop(Tail(mainq))
    /\ user_states' = StatesAfterPop(Tail(mainq))
    /\ UNCHANGED << admin_states, store, coin_prices, checkerVars, sent,
                    baselined, counters, broadcastVars, libVars >>

Main ==
    \/ \E c \in Chats, text \in Texts : MainMessage(c, text)
    \/ \E c \in Chats, data \in Datas, edited \in BOOLEAN :
          MainCallback(c, data, edited)
    \/ MainDbUpdate
    \/ \E o \in Outcomes : MainSend(o)
    \/ MainRemoveUser
    \/ MainDelUser

\* main.py lines 31-53, after the process was stopped: load_settings fills
\* the map from the store, the conversational maps are empty, both threads
\* start over.
Restart ==
    /\ nEvents < MaxEvents
    /\ b_pc = "idle"
    /\ nEvents' = nEvents + 1
    /\ user_settings' = load_all_user_settings(store)
    /\ user_states' = EmptyMap
    /\ admin_states' = EmptyMap
    /\ mainq' = << >>
    /\ pc' = "top"
    /\ slept' = 0
    /\ got429' = FALSE
    /\ ResetCycle
    /\ UNCHANGED << store, coin_prices, baselined, broadcastVars, libVars >>

NoResults == [success |-> 0, failed |-> 0]

\* Both threads at their start, no conversation going on, no call made.
AtRest ==
    /\ user_states = EmptyMap
    /\ admin_states = EmptyMap
    /\ coin_prices = EmptyMap
    /\ pc = "top"
    /\ coin_ids = {}
    /\ prices = EmptyMap
    /\ todo = {}
    /\ cur = NoCur
    /\ orphan = EmptyMap
    /\ iterDirty = FALSE
    /\ mainq = << >>
    /\ sent = ZeroSent
    /\ b_pc = "idle"
    /\ b_ids = << >>
    /\ b_all = {}
    /\ b_listed = FALSE
    /\ b_results = NoResults
    /\ b_blocked = {}
    /\ entered = EmptyMap
    /\ got429 = FALSE
    /\ slept = 0
    /\ db_supplied = EmptyMap
    /\ ret = NoCall
    /\ upserts = EmptyMap
    /\ orm_prices = << >>

\* So at the first update of the process.
Quiet == AtRest /\ nEvents = 0

\* First start on an empty store.
Init ==
    /\ user_settings = EmptyMap
    /\ store = EmptyMap
    /\ orm_settings = EmptyMap
    /\ baselined = {}
    /\ Quiet

Next == Checker \/ Main \/ Restart

Spec == Init /\ [][Next]_vars

(***************************************************************************)
(* crypto_bot/admin.py: broadcast_message, run by the main thread while    *)
(* the price checker goes on                                               *)
(***************************************************************************)

\* The rows of SELECT chat_id FROM user_settings, in key order.
RECURSIVE Ascending(_)
Ascending(S) ==
    IF S = {} THEN << >>
    ELSE LET m == CHOOSE x \in S : \A y \in S : x <= y
         IN << m >> \o Ascending(S \ {m})

\* Variant of the counting of lines 333-347 that leaves a blocked recipient
\* uncounted.
Tally_SkipBlocked(results, outcome) ==
    IF outcome = "ok" THEN [results EXCEPT !.success = @ + 1]
    ELSE IF outcome = "blocked" THEN results
    ELSE [results EXCEPT !.failed = @ + 1]

\* admin.py lines 333, 342 and 347: one recipient is counted.
Tally(results, outcome) ==
    IF outcome = "ok" THEN [results EXCEPT !.success = @ + 1]
    ELSE [results EXCEPT !.failed = @ + 1]

\* Lines 303-320: the recipients are listed; a failure to list them ends the
\* call with no success and no failure.
BroadcastStart(listed) ==
    /\ b_pc = "idle"
    /\ mainq = << >>
    /\ b_all' = DOMAIN store
    /\ b_listed' = listed
    /\ b_results' = NoResults
    /\ b_blocked' = {}
    /\ IF listed
       THEN b_ids' = Ascending(DOMAIN store) /\ b_pc' = "sending"
       ELSE b_ids' = << >> /\ b_pc' = "done"
    /\ UNCHANGED << user_settings, user_states, admin_states, store,
                    coin_prices, checkerVars, orphan, iterDirty, mainq, sent,
                    baselined, counters, libVars,
                    entered >>

\* Lines 322-347: bot.send_message to the next recipient.
BroadcastSend(outcome) ==
    /\ b_pc = "sending"
    /\ b_ids # << >>
    /\ IF outcome = "blocked"
       THEN /\ b_pc' = "removing"
            /\ b_blocked' = b_blocked \cup {Head(b_ids)}
            /\ UNCHANGED << b_ids, b_results >>
       ELSE /\ b_results' = Tally(b_results, outcome)
            /\ b_ids' = Tail(b_ids)
            /\ UNCHANGED << b_pc, b_blocked >>
    /\ UNCHANGED << user_settings, user_states, admin_states, store,
                    coin_prices, checkerVars, orphan, iterDirty, mainq, sent,
                    baselined, counters, b_all, b_listed, libVars,
                    entered >>

\* Lines 338-342: the recipient blocked the bot: db.remove_user, and the
\* failure is counted.
BroadcastRemoveUser ==
    /\ b_pc = "removing"
    /\ store' = remove_user(store, Head(b_ids))
    /\ b_results' = Tally(b_results, "blocked")
    /\ b_ids' = Tail(b_ids)
    /\ b_pc' = "sending"
    /\ UNCHANGED << user_settings, user_states, admin_states, coin_prices,
                    checkerVars, orphan, iterDirty, mainq, sent, baselined,
                    counters, b_all, b_listed, b_blocked, libVars,
                    entered >>

\* Lines 349-351: the call returns its results.
BroadcastReturn ==
    /\ b_pc = "sending"
    /\ b_ids = << >>
    /\ b_pc' = "done"
    /\ UNCHANGED << user_settings, user_states, admin_states, store,
                    coin_prices, checkerVars, orphan, iterDirty, mainq, sent,
                    baselined, counters, b_ids, b_all, b_listed, b_results,
                    b_blocked, libVars,
                    entered >>

Broadcast ==
    \/ \E listed \in BOOLEAN : BroadcastStart(listed)
    \/ \E o \in Outcomes : BroadcastSend(o)
    \/ BroadcastRemoveUser
    \/ BroadcastReturn

\* A row as /start leaves it in the store, and the row of a chat that set a
\* balance and had its baseline recorded.
FreshRow ==
    update_user_settings(EmptyMap, 1, NoneStr, None, None, None, None)[1]

TrackedRow == [FreshRow EXCEPT !.balance = 1, !.last_notified_price = 1]

\* The bot is running on a store of earlier sessions and the administrator
\* has confirmed a broadcast.
InitBroadcast ==
    /\ \E S \in SUBSET Chats : store \in [S -> {FreshRow, TrackedRow}]
    /\ user_settings = load_all_user_settings(store)
    /\ baselined = {c \in DOMAIN store : store[c] = TrackedRow}
    /\ orm_settings = EmptyMap
    /\ Quiet

NextBroadcast == Broadcast \/ Checker

SpecBroadcast == InitBroadcast /\ [][NextBroadcast]_vars

(***************************************************************************)
(* The bot at work on the store of earlier sessions: the price checker     *)
(* beside the handlers of the main thread                                  *)
(***************************************************************************)

\* The store holds the rows of earlier sessions, loaded into the map; the
\* process has taken three updates already.
InitRunning ==
    /\ \E S \in SUBSET Chats : store \in [S -> {FreshRow, TrackedRow}]
    /\ user_settings = load_all_user_settings(store)
    /\ baselined = {c \in DOMAIN store : store[c] = TrackedRow}
    /\ orm_settings = EmptyMap
    /\ AtRest
    /\ nEvents = 3

NextRunning == Checker \/ Main

SpecRunning == InitRunning /\ [][NextRunning]_vars

\* The background thread is a thread of its own (main.py lines 45-47): the
\* scheduler lets it take its next step.
SpecRunningFair == SpecRunning /\ WF_vars(Checker)

(***************************************************************************)
(* crypto_bot/admin.py: the broadcast conversation, on a bot that holds    *)
(* the handlers of register_admin_handlers in the order that function      *)
(* registers them                                                          *)
(***************************************************************************)

\* admin.py lines 60, 152 and 181: the message handlers of the function.
AdminMessageHandlers == SubSeq(MessageHandlers, 6, 8)

AdminDispatchMessage(c, text) ==
    LET passing == {AdminMessageHandlers[i] : i \in
                       {j \in 1..Len(AdminMessageHandlers) :
                           MessageFilter(AdminMessageHandlers[j], c, text)}}
    IN FirstMatch(AdminMessageHandlers, passing)

\* admin.py lines 317-318: the header and the text.
full_message(text) == << "header" >> \o text

\* The handler's statements that start with "broadcast".
Broadcasts(q) == {i \in 1..Len(q) : q[i].op = "broadcast"}

\* The locals of the running handler: the text it read out of the state,
\* and the message broadcast_message made of it (empty before the call).
Read(broadcast_text) ==
    [broadcast_text |-> broadcast_text, full_message |-> << >>]

\* A text message from chat c is dispatched and the handler runs up to its
\* first call of the network.  A confirming reply has read the text out of
\* the state (line 217) by then.
AdminMessage(c, text) ==
    /\ mainq = << >>
    /\ b_pc = "idle"
    /\ nEvents < MaxEvents
    /\ nEvents' = nEvents + 1
    /\ LET h == AdminDispatchMessage(c, text)
           e == RunMessageHandler(h, c, text)
       IN /\ admin_states' = e.admin
          /\ mainq' = e.q
          /\ entered' = IF h = "process_broadcast_text" /\ c \in DOMAIN e.admin
                         THEN Put(entered, c, text)
                         ELSE entered
          /\ ret' = [fn |-> h, args |-> << c, text >>,
                     out |-> IF Broadcasts(e.q) # {}
                             THEN Read(broadcast_text_of(AdminStateOf(c)))
                             ELSE Read(<< >>)]
    /\ UNCHANGED << user_settings, user_states, store, coin_prices,
                    checkerVars, orphan, iterDirty, sent, baselined,
                    b_pc, b_ids, b_all, b_listed, b_results, b_blocked,
                    db_supplied, upserts, orm_settings, orm_prices >>

\* A press of a button whose data start with "admin_".
AdminCallback(c, data, answered) ==
    /\ mainq = << >>
    /\ b_pc = "idle"
    /\ nEvents < MaxEvents
    /\ nEvents' = nEvents + 1
    /\ admin_states' = admin_callback_handler(c, data, answered).admin
    /\ ret' = [fn |-> "admin_callback_handler", args |-> << c, data >>,
               out |-> Read(<< >>)]
    /\ UNCHANGED << user_settings, user_states, store, coin_prices,
                    checkerVars, orphan, iterDirty, mainq, sent, baselined,
                    broadcastVars, db_supplied, upserts, orm_settings,
                    orm_prices >>

\* admin.py line 223 and lines 303-320: broadcast_message is called with the
\* text the handler read out of the state.
AdminBroadcast(listed) ==
    /\ mainq # << >>
    /\ Head(mainq).op = "broadcast"
    /\ b_pc = "idle"
    /\ ret.fn = "process_broadcast_confirmation_text"
    /\ ret' = [ret EXCEPT
                  !.out.full_message = full_message(ret.out.broadcast_text)]
    /\ b_all' = DOMAIN store
    /\ b_listed' = listed
    /\ b_results' = NoResults
    /\ b_blocked' = {}
    /\ IF listed
       THEN b_ids' = Ascending(DOMAIN store) /\ b_pc' = "sending"
       ELSE b_ids' = << >> /\ b_pc' = "done"
    /\ UNCHANGED << user_settings, user_states, admin_states, store,
                    coin_prices, checkerVars, orphan, iterDirty, mainq, sent,
                    baselined, counters, entered, db_supplied, upserts,
                    orm_settings, orm_prices >>

\* admin.py line 223: broadcast_message returned to the handler.
AdminBroadcastReturn ==
    /\ mainq # << >>
    /\ Head(mainq).op = "broadcast"
    /\ b_pc = "done"
    /\ b_pc' = "idle"
    /\ mainq' = Tail(mainq)
    /\ UNCHANGED << user_settings, user_states, admin_states, store,
                    coin_prices, checkerVars, orphan, iterDirty, sent,
                    baselined, counters, b_ids, b_all, b_listed, b_results,
                    b_blocked, entered, libVars >>

\* admin.py lines 161, 207 and 237 pop the state; line 237 does so after the
\* report was sent.
AdminPopState ==
    /\ mainq # << >>
    /\ Head(mainq).op = "pop_admin_state"
    /\ admin_states' = Del(admin_states, Head(mainq).chat)
    /\ mainq' = Tail(mainq)
    /\ UNCHANGED << user_settings, user_states, store, coin_prices,
                    checkerVars, orphan, iterDirty, sent, baselined, counters,
                    broadcastVars, libVars >>

NextAdmin ==
    \/ \E c \in Chats, text \in AdminTexts : AdminMessage(c, text)
    \/ \E c \in Chats, data \in AdminDatas, answered \in BOOLEAN :
          AdminCallback(c, data, answered)
    \/ \E o \in Outcomes : MainSend(o)
    \/ MainRemoveUser
    \/ MainDelUser
    \/ \E listed \in BOOLEAN : AdminBroadcast(listed)
    \/ \E o \in Outcomes : BroadcastSend(o)
    \/ BroadcastRemoveUser
    \/ BroadcastReturn
    \/ AdminBroadcastReturn
    \/ AdminPopState

\* The bot is running; some of the chats have a row in the store.
InitAdmin ==
    /\ \E S \in SUBSET Chats : store = [c \in S |-> FreshRow]
    /\ user_settings = load_all_user_settings(store)
    /\ baselined = {}
    /\ orm_settings = EmptyMap
    /\ Quiet

SpecAdmin == InitAdmin /\ [][NextAdmin]_vars

(***************************************************************************)
(* main.py: the process from the import of the bot to the receive loop     *)
(***************************************************************************)

\* Variant of main.py that starts the thread before it loads the settings.
StartupSteps_ThreadBeforeLoad ==
    << "import", "check_assets_folder", "init_db", "price_thread.start",
       "load_settings", "set_menu_button", "infinity_polling" >>

\* main.py line 6 (which runs config.py lines 14-24 and bot.py line 16) and
\* lines 33, 36, 39, 42, 45-47 and 53.
StartupSteps ==
    << "import", "check_assets_folder", "init_db", "load_settings",
       "set_menu_button", "price_thread.start", "infinity_polling" >>

\* What the step reaches: the store, or the network of the chat platform.
Touches(step) ==
    CASE step \in {"init_db", "load_settings"} -> {"store"}
      [] step \in {"set_menu_button", "infinity_polling"} -> {"network"}
      [] OTHER -> {}

\* Whether the failure of the step leaves it as an exception.  A failure of
\* the import is the missing token (config.py line 23); the store's error in
\* load_all_user_settings is caught there (database.py lines 95-97) and the
\* empty map returned; infinity_polling catches what its loop raises.
Raises(step) == step \notin {"load_settings", "infinity_polling"}

\* Who reports the failure of the step: the logger of database.py (lines 61
\* and 96), or nobody before the exception leaves the step.
ReportedBy(step) ==
    IF step \in {"init_db", "load_settings"} THEN "logger" ELSE "none"

\* The statement of main.py that comes next, "" when there is none.
NextStep ==
    IF ret = NoCall THEN "import"
    ELSE LET at == {i \in 1..Len(StartupSteps) - 1 : StartupSteps[i] = ret.fn}
         IN IF at = {} \/ ret.out.raised THEN ""
            ELSE StartupSteps[(CHOOSE i \in at : TRUE) + 1]

Sofar == IF ret = NoCall
         THEN [failures |-> {}, touched |-> {}, reported |-> "none",
               done |-> << >>]
         ELSE ret.out

\* One statement of the startup runs, and fails or not.
Startup(step, fails) ==
    /\ step = NextStep
    /\ step = "infinity_polling" => ~fails
    /\ ret' = [fn |-> step, args |-> << >>,
               out |-> [raised |-> fails /\ Raises(step),
                        failures |-> IF fails THEN Sofar.failures \cup {step}
                                     ELSE Sofar.failures,
                        touched |-> Sofar.touched \cup Touches(step),
                        reported |-> IF fails THEN ReportedBy(step)
                                     ELSE Sofar.reported,
                        done |-> Append(Sofar.done, step)]]
    /\ user_settings' =
          IF step # "load_settings" THEN user_settings
          ELSE IF fails THEN EmptyMap
          ELSE load_all_user_settings(store)
    /\ UNCHANGED << user_states, admin_states, store, coin_prices,
                    checkerVars, orphan, iterDirty, mainq, sent, baselined,
                    counters, broadcastVars, db_supplied, upserts,
                    orm_settings, orm_prices >>

\* The process ends.  An exception of lines 33-53 is caught at line 55,
\* logged, and main returns 1; the exception of the import is not caught and
\* the interpreter writes its traceback and ends with status 1; a signal in
\* the receive loop is logged and ends the process with status 0 (line 16).
StartupExit ==
    /\ ret # NoCall
    /\ ret.fn # "sys.exit"
    /\ ret.out.raised \/ ret.fn = "infinity_polling"
    /\ ret' = [fn |-> "sys.exit", args |-> << ret.fn >>,
               out |-> [raised |-> FALSE,
                        status |-> IF ret.out.raised THEN 1 ELSE 0,
                        failures |-> ret.out.failures,
                        touched |-> ret.out.touched,
                        reported |-> IF ~ret.out.raised THEN ret.out.reported
                                     ELSE IF ret.fn = "import" THEN "traceback"
                                     ELSE "logger",
                        done |-> ret.out.done]]
    /\ UNCHANGED << botVars, db_supplied, upserts, orm_settings, orm_prices >>

\* The process starts on the store of earlier sessions, the map still empty
\* (bot.py line 18).
InitStartup ==
    /\ \E S \in SUBSET Chats : store \in [S -> {FreshRow, TrackedRow}]
    /\ user_settings = EmptyMap
    /\ baselined = {}
    /\ orm_settings = EmptyMap
    /\ Quiet

\* main.py lines 45-47: the thread of price_checker runs from its start to
\* the end of the process (it is a daemon thread).
PriceThreadRuns ==
    /\ ret # NoCall
    /\ ret.fn # "sys.exit"
    /\ \E i \in 1..Len(ret.out.done) : ret.out.done[i] = "price_thread.start"
    /\ "price_thread.start" \notin ret.out.failures

\* The steps of price_checker, taken while its thread runs.
StartupChecker ==
    \/ PriceThreadRuns /\ CheckerCollectBegin
    \/ PriceThreadRuns /\ CheckerCollectEnd
    \/ \E resp \in Responses : PriceThreadRuns /\ CheckerFetch(resp)
    \/ \E c \in Chats : PriceThreadRuns /\ CheckerNoPrice(c)
    \/ \E c \in Chats : PriceThreadRuns /\ CheckerBaseline(c)
    \/ PriceThreadRuns /\ CheckerBaselineDb
    \/ \E c \in Chats, o \in Outcomes :
          PriceThreadRuns /\ CheckerNotifySend(c, o)
    \/ \E c \in Chats : PriceThreadRuns /\ CheckerBelow(c)
    \/ PriceThreadRuns /\ CheckerRemoveUser
    \/ PriceThreadRuns /\ CheckerDelUser
    \/ PriceThreadRuns /\ CheckerNotifyMem
    \/ PriceThreadRuns /\ CheckerNotifyDb
    \/ PriceThreadRuns /\ CheckerSavePrices

NextStartup ==
    \/ \E i \in 1..Len(StartupSteps), fails \in BOOLEAN :
          Startup(StartupSteps[i], fails)
    \/ StartupExit
    \/ StartupChecker

SpecStartup == InitStartup /\ [][NextStartup]_vars

(***************************************************************************)
(* crypto_bot/api.py called on its own: each call meets one outcome of     *)
(* requests.get                                                            *)
(***************************************************************************)

ApiGetCoinPrice(coin_id, resp) ==
    /\ ret' = [fn |-> "get_coin_price",
               args |-> [ids |-> {coin_id}, resp |-> resp],
               out |-> get_coin_price(coin_id, resp)]
    /\ UNCHANGED << botVars, db_supplied, upserts, orm_settings, orm_prices >>

ApiGetMultiplePrices(ids, resp) ==
    /\ ret' = [fn |-> "get_multiple_prices",
               args |-> [ids |-> ids, resp |-> resp],
               out |-> get_multiple_prices(ids, resp)]
    /\ UNCHANGED << botVars, db_supplied, upserts, orm_settings, orm_prices >>

\* bot.py lines 366-465, show_current_info: the text it puts on the screen
\* of chat c, with what that text interpolates.  Line 391 is
\* f"Не удалось получить текущую цену: {error}"; the texts of lines 371 and
\* 448 are fixed; formatting a threshold or comparing a deposit that is None
\* (lines 410, 420) raises inside the try block.
show_current_info(c, resp) ==
    IF c \notin DOMAIN user_settings
    THEN [text |-> "no_settings", interpolated |-> {}]
    ELSE LET settings == user_settings[c]
             r == get_coin_price(settings.coin_id, resp)
         IN IF r.raised # ""
            THEN [text |-> "try_later", interpolated |-> {}]
            ELSE IF r.price = None
            THEN [text |-> "no_price",
                  interpolated |-> Interpolated(r.error_msg)]
            ELSE IF \/ settings.threshold = None
                    \/ settings.balance # None /\ settings.depozit = None
            THEN [text |-> "try_later", interpolated |-> {}]
            ELSE [text |-> "info", interpolated |-> {}]

\* Chat c presses 'current information'.
ShowCurrentInfo(c, resp) ==
    /\ ret' = [fn |-> "show_current_info",
               args |-> [ids |-> {c}, resp |-> resp],
               out |-> show_current_info(c, resp)]
    /\ UNCHANGED << botVars, db_supplied, upserts, orm_settings, orm_prices >>

NextApi ==
    \/ \E coin_id \in CoinIds, resp \in Responses :
           ApiGetCoinPrice(coin_id, resp)
    \/ \E ids \in SUBSET CoinIds, resp \in Responses :
           ApiGetMultiplePrices(ids, resp)
    \/ \E c \in Chats, resp \in Responses : ShowCurrentInfo(c, resp)

\* The bot runs on the settings of earlier sessions.
SpecApi == InitBroadcast /\ [][NextApi]_vars

(***************************************************************************)
(* crypto_bot/database.py called on its own: update_user_settings and      *)
(* remove_user calls for a chat the store has no row of, next to the row   *)
(* of another chat.  The ORM-backed store of django_integration.py, which  *)
(* starts with the same rows, is given every call as well.                 *)
(***************************************************************************)

StoreNumbers == {None, 0, 2}

\* The keyword arguments of one update_user_settings call.
StoreArgs ==
    [coin_id : {NoneStr, "bitcoin"}, balance : StoreNumbers,
     threshold : StoreNumbers, depozit : StoreNumbers,
     last_notified_price : StoreNumbers]

NothingSupplied ==
    [coin_id |-> NoneStr, balance |-> None, threshold |-> None,
     depozit |-> None, last_notified_price |-> None]

\* The last value supplied for each field, after one more call.
Supply(old, a) ==
    [coin_id |-> IF a.coin_id # NoneStr THEN a.coin_id ELSE old.coin_id,
     balance |-> IF a.balance # None THEN a.balance ELSE old.balance,
     threshold |-> IF a.threshold # None THEN a.threshold ELSE old.threshold,
     depozit |-> IF a.depozit # None THEN a.depozit ELSE old.depozit,
     last_notified_price |->
         IF a.last_notified_price # None THEN a.last_notified_price
         ELSE old.last_notified_price]

\* The calls followed are those for a chat that had no row at the start.
Followed(c) == c \notin DOMAIN store \/ c \in DOMAIN db_supplied

StoreUpdateUserSettings(c, a) ==
    /\ Followed(c)
    /\ store' = update_user_settings(store, c, a.coin_id, a.balance,
                                     a.threshold, a.depozit,
                                     a.last_notified_price)
    /\ orm_settings' = orm_update_user_settings(orm_settings, c, a)
    /\ db_supplied' =
           Put(db_supplied, c,
               Supply(IF c \in DOMAIN db_supplied THEN db_supplied[c]
                      ELSE NothingSupplied, a))
    /\ UNCHANGED << user_settings, user_states, admin_states, coin_prices,
                    checkerVars, orphan, iterDirty, mainq, sent, baselined,
                    counters, broadcastVars, ret, upserts, orm_prices >>

StoreRemoveUser(c) ==
    /\ c \in DOMAIN db_supplied
    /\ store' = remove_user(store, c)
    /\ orm_settings' = orm_remove_user(orm_settings, c)
    /\ db_supplied' = Del(db_supplied, c)
    /\ UNCHANGED << user_settings, user_states, admin_states, coin_prices,
                    checkerVars, orphan, iterDirty, mainq, sent, baselined,
                    counters, broadcastVars, ret, upserts, orm_prices >>

InitStore ==
    /\ \E c \in Chats : store \in [{c} -> {FreshRow, TrackedRow}]
    /\ orm_settings = store
    /\ user_settings = EmptyMap
    /\ baselined = {}
    /\ Quiet

NextStore ==
    \/ \E c \in Chats, a \in StoreArgs : StoreUpdateUserSettings(c, a)
    \/ \E c \in Chats : StoreRemoveUser(c)

SpecStore == InitStore /\ [][NextStore]_vars

(***************************************************************************)
(* crypto_bot/database.py: one call of any function of the module, which   *)
(* the storage layer lets through or fails with sqlite3.Error              *)
(***************************************************************************)

StoreCalls ==
    {[fn |-> f, chat |-> None, a |-> NothingSupplied, coin_id |-> NoneStr,
      price |-> None] :
        f \in {"init_db", "load_all_user_settings", "get_users_count"}} \cup
    {[fn |-> f, chat |-> c, a |-> NothingSupplied, coin_id |-> NoneStr,
      price |-> None] :
        f \in {"get_user_settings", "remove_user"}, c \in Chats} \cup
    {[fn |-> "update_user_settings", chat |-> c, a |-> a, coin_id |-> NoneStr,
      price |-> None] : c \in Chats, a \in StoreArgs} \cup
    {[fn |-> "update_coin_price", chat |-> None, a |-> NothingSupplied,
      coin_id |-> k, price |-> p] : k \in CoinIds, p \in Prices} \cup
    {[fn |-> "get_coin_price", chat |-> None, a |-> NothingSupplied,
      coin_id |-> k, price |-> None] : k \in CoinIds}

Outcome(value, raised, st, cp) ==
    [out |-> [value |-> value, raised |-> raised], store |-> st,
     coin_prices |-> cp]

\* The try block of each function runs to its return.
OnSuccess(call, st, cp) ==
    CASE call.fn = "init_db" -> Outcome(None, FALSE, st, cp)
      [] call.fn = "load_all_user_settings" ->
            Outcome(load_all_user_settings(st), FALSE, st, cp)
      [] call.fn = "get_user_settings" ->
            Outcome(IF call.chat \in DOMAIN st
                    THEN get_user_settings(st, call.chat) ELSE None,
                    FALSE, st, cp)
      [] call.fn = "update_user_settings" ->
            Outcome(TRUE, FALSE,
                    update_user_settings(st, call.chat, call.a.coin_id,
                                         call.a.balance, call.a.threshold,
                                         call.a.depozit,
                                         call.a.last_notified_price), cp)
      [] call.fn = "remove_user" ->
            Outcome(call.chat \in DOMAIN st, FALSE,
                    remove_user(st, call.chat), cp)
      [] call.fn = "update_coin_price" ->
            Outcome(None, FALSE, st,
                    update_coin_price(cp, call.coin_id, call.price))
      [] call.fn = "get_coin_price" ->
            Outcome(db_get_coin_price(cp, call.coin_id), FALSE, st, cp)
      [] call.fn = "get_users_count" ->
            Outcome(get_users_count(st), FALSE, st, cp)

\* Variant of OnError in which update_user_settings reports success.
OnError_UpdateReportsSuccess(call, st, cp) ==
    CASE call.fn = "init_db" -> Outcome(None, TRUE, st, cp)
      [] call.fn = "load_all_user_settings" -> Outcome(EmptyMap, FALSE, st, cp)
      [] call.fn \in {"update_user_settings", "remove_user"} ->
            Outcome(call.fn = "update_user_settings", FALSE, st, cp)
      [] call.fn = "get_users_count" -> Outcome(0, FALSE, st, cp)
      [] OTHER -> Outcome(None, FALSE, st, cp)

\* sqlite3.Error in the try block, at connect, execute or commit: nothing is
\* committed, and the `except sqlite3.Error` of the function returns its
\* value; that of init_db (line 62) raises the error again.
OnError(call, st, cp) ==
    CASE call.fn = "init_db" -> Outcome(None, TRUE, st, cp)
      [] call.fn = "load_all_user_settings" -> Outcome(EmptyMap, FALSE, st, cp)
      [] call.fn \in {"update_user_settings", "remove_user"} ->
            Outcome(FALSE, FALSE, st, cp)
      [] call.fn = "get_users_count" -> Outcome(0, FALSE, st, cp)
      [] OTHER -> Outcome(None, FALSE, st, cp)

StoreCall(call, fails) ==
    /\ ret.fn = ""
    /\ LET r == IF fails THEN OnError(call, store, coin_prices)
                ELSE OnSuccess(call, store, coin_prices)
       IN /\ ret' = [fn |-> call.fn,
                     args |-> [call |-> call, fails |-> fails,
                               store |-> store, coin_prices |-> coin_prices],
                     out |-> r.out]
          /\ store' = r.store
          /\ coin_prices' = r.coin_prices
    /\ UNCHANGED << user_settings, user_states, admin_states, checkerVars,
                    orphan, iterDirty, mainq, sent, baselined, counters,
                    broadcastVars, db_supplied, upserts, orm_settings,
                    orm_prices >>

NextCalls == \E call \in StoreCalls, fails \in BOOLEAN : StoreCall(call, fails)

SpecCalls == InitBroadcast /\ [][NextCalls]_vars

(***************************************************************************)
(* update_user_settings statement by statement: the SELECT and the UPDATE   *)
(* of one call are two steps, each thread on a connection of its own       *)
(* (database.py lines 157-194), so the call of one thread can run between  *)
(* the two statements of the other.  The threads are the main thread in    *)
(* set_balance, set_threshold or set_depozit and the price checker writing *)
(* last_notified_price.                                                    *)
(***************************************************************************)

Threads == {"main", "checker"}

Amounts == {1, 2}

\* Line 159-164: the row the SELECT of a call returns.
Select(st, chat_id) ==
    IF chat_id \in DOMAIN st
    THEN [found |-> TRUE, row |-> st[chat_id]]
    ELSE [found |-> FALSE, row |-> NothingSupplied]

\* Lines 165-192: the UPDATE of every column from the selected row and the
\* arguments (no row is touched when it is gone), or the INSERT (refused by
\* the primary key when the row is there by now).
WriteBack(st, chat_id, sel, a) ==
    IF sel.found
    THEN IF chat_id \in DOMAIN st
         THEN Put(st, chat_id,
                  update_user_settings(Put(EmptyMap, chat_id, sel.row),
                                       chat_id, a.coin_id, a.balance,
                                       a.threshold, a.depozit,
                                       a.last_notified_price)[chat_id])
         ELSE st
    ELSE IF chat_id \in DOMAIN st
         THEN st
         ELSE update_user_settings(st, chat_id, a.coin_id, a.balance,
                                   a.threshold, a.depozit,
                                   a.last_notified_price)

\* The keyword arguments of a call that supplies one field.
OneField(field, v) ==
    [f \in DOMAIN NothingSupplied |->
        IF f = field THEN v ELSE NothingSupplied[f]]

Begin(t, c, a) ==
    upserts' = Put(upserts, t, [chat |-> c, a |-> a, selected |-> FALSE,
                                sel |-> Select(EmptyMap, c)])

\* bot.py lines 496, 529, 562: a settings handler writes the parsed value to
\* the map; its update_user_settings call is next.
UpsertMainMem(c, field, v) ==
    /\ "main" \notin DOMAIN upserts
    /\ c \in DOMAIN user_settings
    /\ nEvents < MaxEvents
    /\ nEvents' = nEvents + 1
    /\ user_settings' = [user_settings EXCEPT ![c][field] = v]
    /\ Begin("main", c, OneField(field, v))
    /\ UNCHANGED << user_states, admin_states, store, coin_prices,
                    checkerVars, orphan, iterDirty, mainq, sent, baselined,
                    broadcastVars, db_supplied, ret, orm_settings,
                    orm_prices >>

\* bot.py lines 144-146 and 151-181: the price checker writes the price as
\* the baseline to the map; its update_user_settings call is next.
UpsertCheckerMem(c, price) ==
    /\ "checker" \notin DOMAIN upserts
    /\ c \in DOMAIN user_settings
    /\ nEvents < MaxEvents
    /\ \/ BaselineCase(user_settings[c].balance,
                       user_settings[c].last_notified_price)
       \/ Crosses(price, user_settings[c].last_notified_price,
                  user_settings[c].threshold)
    /\ nEvents' = nEvents + 1
    /\ user_settings' = [user_settings EXCEPT ![c].last_notified_price = price]
    /\ Begin("checker", c, OneField("last_notified_price", price))
    /\ UNCHANGED << user_states, admin_states, store, coin_prices,
                    checkerVars, orphan, iterDirty, mainq, sent, baselined,
                    broadcastVars, db_supplied, ret, orm_settings,
                    orm_prices >>

\* database.py lines 159-164.
UpsertSelect(t) ==
    /\ t \in DOMAIN upserts
    /\ ~upserts[t].selected
    /\ upserts' = [upserts EXCEPT ![t].selected = TRUE,
                                  ![t].sel = Select(store, upserts[t].chat)]
    /\ UNCHANGED << botVars, db_supplied, ret, orm_settings, orm_prices >>

\* database.py lines 165-194: the write and the commit; the call returns.
UpsertWrite(t) ==
    /\ t \in DOMAIN upserts
    /\ upserts[t].selected
    /\ store' = WriteBack(store, upserts[t].chat, upserts[t].sel, upserts[t].a)
    /\ upserts' = Del(upserts, t)
    /\ UNCHANGED << user_settings, user_states, admin_states, coin_prices,
                    checkerVars, orphan, iterDirty, mainq, sent, baselined,
                    counters, broadcastVars, db_supplied, ret, orm_settings,
                    orm_prices >>

\* The bot is running with the settings of one chat loaded from the store.
InitUpsert ==
    /\ \E c \in Chats : store \in [{c} -> {FreshRow, TrackedRow}]
    /\ user_settings = load_all_user_settings(store)
    /\ orm_settings = EmptyMap
    /\ baselined = {}
    /\ Quiet

NextUpsert ==
    \/ \E c \in Chats, field \in {"balance", "threshold", "depozit"},
          v \in Amounts : UpsertMainMem(c, field, v)
    \/ \E c \in Chats, price \in Prices : UpsertCheckerMem(c, price)
    \/ \E t \in Threads : UpsertSelect(t)
    \/ \E t \in Threads : UpsertWrite(t)

SpecUpsert == InitUpsert /\ [][NextUpsert]_vars

(***************************************************************************)
(* crypto_bot/django_integration.py: update_coin_price and get_coin_price  *)
(* called on their own                                                     *)
(***************************************************************************)

\* The clock reading of the newest row; the clock does not go back.
Clock(rows) ==
    IF rows = << >> THEN 0
    ELSE rows[Len(rows)].timestamp

\* update_coin_price(coin_id, price), the clock having moved on since the
\* last row was created, or not.
OrmUpdateCoinPrice(coin_id, price, tick) ==
    /\ nEvents < MaxEvents
    /\ nEvents' = nEvents + 1
    /\ orm_prices' = orm_update_coin_price(orm_prices, coin_id, price,
                                           Clock(orm_prices) + tick)
    /\ ret' = [fn |-> "orm_update_coin_price", args |-> coin_id, out |-> price]
    /\ UNCHANGED << user_settings, user_states, admin_states, store,
                    coin_prices, checkerVars, orphan, iterDirty, mainq, sent,
                    baselined, broadcastVars, db_supplied, upserts,
                    orm_settings >>

\* get_coin_price(coin_id) returns the price of row i, or None without one.
OrmGetCoinPrice(coin_id, i) ==
    /\ i <= Len(orm_prices)
    /\ IF NewestRows(orm_prices, coin_id) = {}
       THEN i = 0
       ELSE i \in NewestRows(orm_prices, coin_id)
    /\ ret' = [fn |-> "orm_get_coin_price", args |-> coin_id,
               out |-> IF i = 0 THEN None ELSE orm_prices[i].price]
    /\ UNCHANGED << botVars, db_supplied, upserts, orm_settings, orm_prices >>

NextOrm ==
    \/ \E coin_id \in CoinIds, price \in Prices, tick \in {0, 1} :
           OrmUpdateCoinPrice(coin_id, price, tick)
    \/ \E coin_id \in CoinIds, i \in 0..MaxEvents :
           OrmGetCoinPrice(coin_id, i)

SpecOrm == Init /\ [][NextOrm]_vars

(***************************************************************************)
(* Properties                                                              *)
(***************************************************************************)

\* The price checker takes chat c off its list and goes on with the cycle.
Processes(c) == pc = "loop" /\ c \in todo /\ c \notin todo' /\ pc' # "top"

\* As the cycle reads them for chat c: a price was fetched for its coin, and
\* balance and last_notified_price are both present.
Comparable(c) ==
    /\ PriceFor(c) # None
    /\ SettingsOf(c).balance # None
    /\ SettingsOf(c).last_notified_price # None

Delta(c) == Abs(PriceFor(c) - SettingsOf(c).last_notified_price)

\* The threshold the cycle reads for chat c is a number.
HasThreshold(c) == SettingsOf(c).threshold \notin {None, NaN}

\* The cycle has finished with a chat on the notification path.
NotificationDone == pc \in {"n_check", "n_db"} /\ pc' = "loop"

C3_BelowThresholdChangesNothing ==
    [][\A c \in Chats :
          (Processes(c) /\ Comparable(c) /\ HasThreshold(c)
              /\ Delta(c) < SettingsOf(c).threshold)
          => /\ sent' = sent
             /\ user_settings' = user_settings
             /\ store' = store
             /\ pc' = "loop"]_vars

\* C3 witness: in a running cycle a baselined user with a balance was
\* processed with a price below the threshold away from the baseline, and no
\* notification went out.
C3_Witness ==
    \E c \in DOMAIN user_settings :
        /\ pc = "loop" /\ c \notin todo /\ c \in baselined /\ sent[c] = 0
        /\ c \notin DOMAIN orphan
        /\ Comparable(c)
        /\ HasThreshold(c)
        /\ Delta(c) < user_settings[c].threshold
        /\ c \in DOMAIN store
        /\ store[c].last_notified_price = user_settings[c].last_notified_price

\* C4: a chat created by /start is sent no price notification before some
\* polling cycle recorded a fetched price as its last_notified_price, also
\* across restarts that reload the map from the store.
C4_NoNotificationBeforeBaseline ==
    [][\A c \in Chats : sent'[c] > sent[c] => c \in baselined]_vars

\* The handler of /start or /menu returns: its last statement, the send of
\* the welcome message, is done.
WelcomeReturns(c) ==
    /\ mainq # << >>
    /\ Head(mainq) = Send(c, "welcome")
    /\ mainq' = << >>
    /\ c \in DOMAIN user_settings'

\* C5: a record created by /start or /menu has coin_id "fpi-bank", balance
\* absent, threshold 0.1, depozit 0 and last_notified_price absent, and after
\* the handler the five fields are the same in the in-memory map and in the
\* store.
C5_WelcomeLeavesMapAndStoreEqual ==
    [][\A c \in Chats :
          WelcomeReturns(c)
          => /\ c \in DOMAIN store'
             /\ store'[c] = user_settings'[c]]_vars

\* A call of send_message for chat c returns on its blocked-by-user path.
BlockedSendReturns(c) ==
    \/ /\ mainq # << >>
       /\ Head(mainq).op = "del_user"
       /\ Head(mainq).chat = c
       /\ mainq' # mainq
       /\ pc' = pc
    \/ /\ pc = "n_del" /\ pc' = "n_check" /\ cur.chat = c

\* C6: right after send_message returns from a blocked-by-user failure the
\* chat is in neither the in-memory map nor the store; any other outcome
\* leaves its record in both.
C6_BlockedChatGoneFromMapAndStore ==
    [][\A c \in Chats :
          /\ BlockedSendReturns(c)
             => c \notin DOMAIN user_settings' /\ c \notin DOMAIN store'
          /\ \A o \in Outcomes \ {"blocked"} :
                MainSend(o) => user_settings' = user_settings /\ store' = store
      ]_vars

\* C7: a recipient whose send fails as blocked during a broadcast is counted
\* as failed and, when the broadcast returns, is in neither the store nor the
\* in-memory map.
C7_BroadcastBlockedGoneFromStoreAndMap ==
    [][(b_pc = "sending" /\ b_pc' = "done")
          => /\ b_results'.failed >= Cardinality(b_blocked')
             /\ \A c \in b_blocked' :
                   c \notin DOMAIN store' /\ c \notin DOMAIN user_settings'
      ]_vars

\* C8: /admin from a chat that is not the administrator is answered with the
\* permission-denied message and changes no admin state.
C8_NonAdminIsRefused ==
    [][\A c \in Chats :
          (~check_admin(c) /\ MainMessage(c, "/admin"))
          => /\ mainq' = << Send(c, "no_permission") >>
             /\ admin_states' = admin_states]_vars

\* C9: /admin from the administrator, who is in no awaiting_* state, is
\* dispatched to admin_command and answered with the admin panel.
C9_AdminGetsPanel ==
    [][(check_admin(ADMIN_ID) /\ ADMIN_ID \notin DOMAIN user_states
            /\ MainMessage(ADMIN_ID, "/admin"))
          => /\ DispatchMessage(ADMIN_ID, "/admin") = "admin_command"
             /\ mainq' = << Send(ADMIN_ID, "admin_panel") >>]_vars

\* C10 as stated: every completed broadcast has success + failed equal to the
\* number of chat ids that were in the store when it started.
C10_CountsCoverTheStore ==
    b_pc = "done"
    => b_results.success + b_results.failed = Cardinality(b_all)

\* C10 amended: a completed broadcast that could list its recipients has
\* success + failed equal to the number of chat ids that were in the store
\* when it started, whatever the outcomes of the sends; one that could not
\* list them returns success = failed = 0.
C10_CountsCoverTheListedStore ==
    /\ b_pc \in {"sending", "removing"}
       => b_results.success + b_results.failed + Len(b_ids) = Cardinality(b_all)
    /\ b_pc = "done"
       => IF b_listed
          THEN b_results.success + b_results.failed = Cardinality(b_all)
          ELSE b_results = NoResults

\* C10 witness: a completed broadcast with a delivered, a blocked and so a
\* failed recipient.
C10_Witness ==
    /\ b_pc = "done" /\ b_listed
    /\ b_results.success >= 1 /\ b_results.failed >= 1
    /\ b_blocked # {}
    /\ b_results.success + b_results.failed = Cardinality(b_all)

\* The field a settings handler writes.
FieldOf(h) ==
    CASE h = "set_balance" -> "balance"
      [] h = "set_threshold" -> "threshold"
      [] h = "set_depozit" -> "depozit"

SetHandlers == {"set_balance", "set_threshold", "set_depozit"}

\* The text is a valid value for the field: a number, > 0 for balance and
\* threshold, >= 0 for depozit.
ValidValue(field, text) ==
    /\ IsNumber(text)
    /\ float(text) # NaN
    /\ IF field = "depozit" THEN float(text) >= 0 ELSE float(text) > 0

\* The text is non-numeric or out of range for the field, as C12 lists it.
InvalidValue(field, text) ==
    \/ ~IsNumber(text)
    \/ /\ float(text) # NaN
       /\ IF field = "depozit" THEN float(text) < 0 ELSE float(text) <= 0

\* The last statement of a settings handler (the pop of the state) runs.
SetHandlerReturns(c) ==
    /\ mainq # << >>
    /\ mainq[Len(mainq)].op = "pop_state"
    /\ mainq[Len(mainq)].chat = c
    /\ mainq' = << >>
    /\ nEvents' = nEvents

\* C11: a chat in an awaiting_* state that sends a valid value has, after the
\* handler, that value in the field of its in-memory record and of its store
\* row, and no conversational state; also a chat whose record was removed.
C11_ValidValueIsStored ==
    [][\A c \in Chats :
          /\ \A text \in Texts :
                (/\ mainq = << >>
                 /\ nEvents' = nEvents + 1
                 /\ c \in DOMAIN user_states
                 /\ DispatchMessage(c, text) \in SetHandlers
                 /\ ValidValue(FieldOf(DispatchMessage(c, text)), text)
                 /\ MainMessage(c, text))
                => /\ c \in DOMAIN user_settings'
                   /\ user_settings'[c][FieldOf(DispatchMessage(c, text))]
                         = float(text)
                   /\ mainq' # << >>
          /\ SetHandlerReturns(c)
             => /\ c \notin DOMAIN user_states'
                /\ c \in DOMAIN user_settings' \cap DOMAIN store'
                /\ user_settings'[c][mainq[Len(mainq)].f] = mainq[Len(mainq)].v
                /\ store'[c][mainq[Len(mainq)].f] = mainq[Len(mainq)].v]_vars

Reprompts == {"not_a_number", "out_of_range"}

\* The main thread runs a statement that follows from the re-prompt to c:
\* its send, or what send_message does after the send failed.
RepromptStep(c) ==
    /\ mainq # << >>
    /\ Head(mainq).chat = c
    /\ Head(mainq).msg \in Reprompts
    /\ mainq' # mainq
    /\ nEvents' = nEvents

\* A settings handler takes an invalid text from c.
InvalidInput(c, text) ==
    /\ mainq = << >>
    /\ nEvents' = nEvents + 1
    /\ c \in DOMAIN user_states
    /\ DispatchMessage(c, text) \in SetHandlers
    /\ InvalidValue(FieldOf(DispatchMessage(c, text)), text)
    /\ MainMessage(c, text)

\* C12 as stated: on a non-numeric or out-of-range input in an awaiting_*
\* state the re-prompt goes out and nothing the handler runs changes the
\* conversational state, the in-memory map or the store.
C12_InvalidInputChangesNothing ==
    [][\A c \in Chats :
          ((\E text \in Texts : InvalidInput(c, text)) \/ RepromptStep(c))
          => /\ user_states' = user_states
             /\ user_settings' = user_settings
             /\ store' = store]_vars

\* What a settings handler does with an invalid text in any state where the
\* main thread can take a message: it writes nothing and has the re-prompt
\* to send.
InvalidInputOnlyReprompts ==
    mainq = << >>
    => \A c \in DOMAIN user_states, text \in Texts :
          (/\ DispatchMessage(c, text) \in SetHandlers
           /\ InvalidValue(FieldOf(DispatchMessage(c, text)), text))
          => \E r \in Reprompts :
                HandleMessage(c, text) = Stay(<< Send(c, r) >>)

\* C12 amended: the handler sends the re-prompt and changes neither the
\* conversational state nor the settings in the map and the store; the
\* send of the re-prompt changes none of them either, and unless it fails
\* as blocked by the user (send_message then removes the chat's record) the
\* handler is over with it.
C12_InvalidInputChangesNothingUnlessBlocked ==
    /\ []InvalidInputOnlyReprompts
    /\ [][\A c \in Chats :
            /\ (/\ mainq = << >>
                /\ Len(mainq') = 1
                /\ Head(mainq') \in {Send(c, r) : r \in Reprompts})
               => /\ user_states' = user_states
                  /\ user_settings' = user_settings
                  /\ store' = store
            /\ (RepromptStep(c) /\ Head(mainq).op = "send")
               => /\ user_states' = user_states
                  /\ user_settings' = user_settings
                  /\ store' = store
                  /\ \/ mainq' = << >>
                     \/ MainSend("blocked")]_vars

\* C12 witness: a chat with a record and an awaiting_* state was answered
\* with the out-of-range re-prompt, which is about to go out.
C12_Witness ==
    \E c \in DOMAIN user_settings \cap DOMAIN store :
        /\ StateOf(c) = "awaiting_balance"
        /\ mainq = << Send(c, "out_of_range") >>
        /\ user_settings[c].balance = None

\* x is a number greater than 0; x is a number not below 0.
Positive(x) == x \notin {None, NaN} /\ x > 0

NonNegative(x) == x \notin {None, NaN} /\ x >= 0

RecordInRange(r) ==
    /\ Positive(r.threshold)
    /\ r.balance = None \/ Positive(r.balance)
    /\ NonNegative(r.depozit)

\* C13: in every reachable state every settings record of the store and of
\* the in-memory map has threshold > 0, balance absent or > 0 and
\* depozit >= 0 (each of them is a function of the chat id: one record per
\* chat).
C13_RecordsInRange ==
    /\ \A c \in DOMAIN user_settings : RecordInRange(user_settings[c])
    /\ \A c \in DOMAIN store : RecordInRange(store[c])

\* A cycle of the price checker ends: the loop is back at its top after a
\* sleep.
CycleEnds == pc # "top" /\ pc' = "top" /\ slept' # 0

\* C19: a cycle whose price request was answered 429 ends with a sleep of
\* twice the polling interval, every other cycle with a sleep of one.
C19_SleepsTwiceAfter429 ==
    [][CycleEnds => slept' = IF got429 THEN 2 ELSE 1]_vars

\* The request of the last api call was answered with this status.
Answered(status) ==
    ret.args.resp.kind = "response" /\ ret.args.resp.status = status

\* The request of the last api call got a 200 response whose body is a dict
\* that holds a price under coin id c.
HasPrice(c) ==
    /\ Answered(200)
    /\ ret.args.resp.body.json = "dict"
    /\ c \in DOMAIN ret.args.resp.body.data
    /\ ret.args.resp.body.data[c].shape = "price"

\* C17: get_coin_price raises RateLimitError on 429, APIResponseError on
\* another non-200 status, APIConnectionError on a timeout or a connection
\* failure, and returns (None, message) only on a 200 response that does not
\* hold the price or on another exception.
C17_GetCoinPriceRaisesByStatus ==
    ret.fn = "get_coin_price" =>
        /\ Answered(429) => ret.out.raised = "RateLimitError"
        /\ ret.args.resp.kind = "response" /\ ret.args.resp.status \notin {200, 429}
               => ret.out.raised = "APIResponseError"
        /\ ret.args.resp.kind \in {"Timeout", "RequestException"}
               => ret.out.raised = "APIConnectionError"
        /\ ret.out.raised = "" /\ ret.out.price = None
               => \/ Answered(200) /\ \A c \in ret.args.ids : ~HasPrice(c)
                  \/ ret.args.resp.kind = "Exception"

\* The request of the last api call failed: no response, a status other than
\* 200, a body that is no JSON dict, or under a requested id an entry that
\* cannot be read.
RequestFailed ==
    \/ ~Answered(200)
    \/ ret.args.resp.body.json # "dict"
    \/ \E c \in ret.args.ids \cap DOMAIN ret.args.resp.body.data :
           ret.args.resp.body.data[c].shape \in {"not_a_dict", "bad_price"}

\* C18: get_multiple_prices returns a map over exactly the requested ids,
\* each to the price the response holds for it or to None, and to None for
\* every id when the request failed.
C18_GetMultiplePricesCoversTheIds ==
    ret.fn = "get_multiple_prices" =>
        /\ DOMAIN ret.out = ret.args.ids
        /\ \A c \in ret.args.ids :
               \/ ret.out[c] = None
               \/ HasPrice(c) /\ ret.out[c] = ret.args.resp.body.data[c].price
        /\ RequestFailed => \A c \in ret.args.ids : ret.out[c] = None
        /\ ~RequestFailed =>
               \A c \in ret.args.ids : HasPrice(c) => ret.out[c] # None

\* Two ids were requested, the body holds a price for one and an unreadable
\* entry for the other, and both come back as None.
C18_Witness ==
    /\ ret.fn = "get_multiple_prices"
    /\ ret.args.ids = CoinIds
    /\ \E c, d \in CoinIds :
           /\ HasPrice(c)
           /\ d \in DOMAIN ret.args.resp.body.data
           /\ ret.args.resp.body.data[d].shape = "bad_price"
    /\ \A c \in CoinIds : ret.out[c] = None

\* The fields the claims on update_user_settings name a default for.
FieldDefaults ==
    [coin_id |-> "fpi-bank", threshold |-> DEFAULT_THRESHOLD, depozit |-> 0]

\* C14: after any sequence of update_user_settings calls for a chat the
\* store had no row of, each field of the row is the last value supplied for
\* it, and the default where none was supplied.
C14_RowHoldsLastSupplied ==
    \A c \in DOMAIN db_supplied :
        /\ store[c].coin_id = IF db_supplied[c].coin_id # NoneStr
                              THEN db_supplied[c].coin_id
                              ELSE FieldDefaults.coin_id
        /\ store[c].threshold = IF db_supplied[c].threshold # None
                                THEN db_supplied[c].threshold
                                ELSE FieldDefaults.threshold
        /\ store[c].depozit = IF db_supplied[c].depozit # None
                              THEN db_supplied[c].depozit
                              ELSE FieldDefaults.depozit
        /\ db_supplied[c].balance # None
               => store[c].balance = db_supplied[c].balance
        /\ db_supplied[c].last_notified_price # None
               => store[c].last_notified_price
                      = db_supplied[c].last_notified_price

\* C15: what get_user_settings and load_all_user_settings return for a chat
\* holds, for every field update_user_settings wrote, the value written, and
\* the two agree on every chat.
C15_ReadsReturnWhatWasWritten ==
    /\ \A c \in DOMAIN db_supplied :
           LET w == db_supplied[c]
               g == get_user_settings(store, c)
               l == load_all_user_settings(store)[c]
           IN /\ w.coin_id # NoneStr => g.coin_id = w.coin_id /\ l.coin_id = w.coin_id
              /\ w.balance # None => g.balance = w.balance /\ l.balance = w.balance
              /\ w.threshold # None
                     => g.threshold = w.threshold /\ l.threshold = w.threshold
              /\ w.depozit # None => g.depozit = w.depozit /\ l.depozit = w.depozit
              /\ w.last_notified_price # None
                     => /\ g.last_notified_price = w.last_notified_price
                        /\ l.last_notified_price = w.last_notified_price
    /\ DOMAIN load_all_user_settings(store) = DOMAIN store
    /\ \A c \in DOMAIN store :
           get_user_settings(store, c) = load_all_user_settings(store)[c]

\* The last call was one of function fn that the storage layer failed.
Failed(fn) == ret.fn = fn /\ ret.args.fails

\* The tables are as they were before the last call.
DataUnchanged ==
    store = ret.args.store /\ coin_prices = ret.args.coin_prices

\* What a failed call of a function other than init_db comes to: its value
\* for the failure, no exception, the tables as they were.
DegradesToDefault ==
    /\ Failed("load_all_user_settings") => ret.out.value = EmptyMap
    /\ Failed("get_user_settings") => ret.out.value = None
    /\ Failed("update_user_settings") => ret.out.value = FALSE
    /\ Failed("remove_user") => ret.out.value = FALSE
    /\ Failed("update_coin_price") => ret.out.value = None
    /\ Failed("get_coin_price") => ret.out.value = None
    /\ Failed("get_users_count") => ret.out.value = 0
    /\ ret.fn \notin {"", "init_db"} /\ ret.args.fails
           => ~ret.out.raised /\ DataUnchanged

C20_StoreEqualsMapWhenBothReturned ==
    upserts = EmptyMap =>
        \A c \in DOMAIN user_settings :
            /\ c \in DOMAIN store
            /\ store[c] = user_settings[c]

\* C21: whatever the price request of 'current information' comes to, the
\* text shown to the chat is fixed: it interpolates neither the response
\* body, nor the status text, nor the text of an exception.
C21_ShownTextHoldsNoErrorDetail ==
    ret.fn = "show_current_info" => ret.out.interpolated = {}

\* The row created last for a coin that has rows.
LastCreated(rows, coin_id) ==
    CHOOSE i \in 1..Len(rows) :
        /\ rows[i].coin_id = coin_id
        /\ \A j \in 1..Len(rows) : rows[j].coin_id = coin_id => j <= i

\* C22: every update_coin_price call of the ORM-backed store adds one row
\* and leaves the rows there were as they were, and get_coin_price returns
\* the price of the row created last for the coin, equal timestamps or not.
C22_AppendOnlyAndNewestReturned ==
    [][/\ Len(orm_prices') >= Len(orm_prices)
       /\ SubSeq(orm_prices', 1, Len(orm_prices)) = orm_prices
       /\ nEvents' # nEvents => Len(orm_prices') = Len(orm_prices) + 1
       /\ ret'.fn = "orm_get_coin_price" /\ ret'.out # None
              => ret'.out = orm_prices'[LastCreated(orm_prices', ret'.args)].price
      ]_vars

\* C23: given the same update_user_settings and remove_user calls, the
\* embedded store and the ORM-backed store load the same settings mapping.
C23_BackendsLoadTheSameSettings ==
    load_all_user_settings(store) = get_all_users_settings(orm_settings)

\* C24: while the administrator's state is confirming_broadcast:<text>, the
\* button admin_confirm_broadcast makes the handler run the broadcast, and the
\* button admin_cancel_broadcast returns the state to idle with no broadcast,
\* as the confirming and the cancelling text replies do.
C24_ButtonsConfirmAndCancel ==
    [][/\ (/\ startswith(AdminStateOf(ADMIN_ID), confirming_prefix)
           /\ AdminCallback(ADMIN_ID, "admin_confirm_broadcast", TRUE))
          => Broadcasts(mainq') # {}
       /\ (/\ startswith(AdminStateOf(ADMIN_ID), confirming_prefix)
           /\ AdminCallback(ADMIN_ID, "admin_cancel_broadcast", TRUE))
          => /\ ADMIN_ID \notin DOMAIN admin_states'
             /\ Broadcasts(mainq') = {}
      ]_vars

\* C25: a startup in which a step failed (the token missing, the store's
\* initialisation, the load of the settings, the registration of the command
\* menu) never enters the receive loop and ends with a non-zero status and
\* the failure reported; a missing token ends it with neither the store nor
\* the network touched.
C25_FailedStartupExitsNonZero ==
    /\ ret.fn = "infinity_polling" => ret.out.failures = {}
    /\ (ret.fn = "sys.exit" /\ ret.out.failures # {})
          => /\ ret.out.status # 0
             /\ ret.out.reported # "none"
             /\ ret.args # << "infinity_polling" >>
    /\ (ret.fn \in {"import", "sys.exit"} /\ "import" \in ret.out.failures)
          => ret.out.touched = {}

\* The reply the handler of the last message compared with its two sets.
Response == lower(strip(ret.args[2]))

\* The admin state of chat c after the step.
AdminStateAfter(c) ==
    IF c \in DOMAIN admin_states' THEN admin_states'[c] ELSE << >>

\* The step changes the admin state of chat c along the machine: to
\* awaiting_broadcast_text by the button (from idle only, or from any state),
\* from there to confirming_broadcast:<text> or, by /cancel, to idle, and
\* from confirming to idle by a cancelling reply or at the end of the handler
\* of a confirming one.
AlongTheMachine(c, fromIdleOnly) ==
    LET old == AdminStateOf(c)
        new == AdminStateAfter(c)
    IN \/ /\ fromIdleOnly => old = << >>
          /\ new = awaiting_broadcast_text
          /\ AdminCallback(c, "admin_broadcast", TRUE)
       \/ /\ old = awaiting_broadcast_text
          /\ \E T \in AdminTexts :
                /\ lower(strip(T)) # "/cancel"
                /\ new = confirming_broadcast(T)
                /\ AdminMessage(c, T)
       \/ /\ old = awaiting_broadcast_text
          /\ new = << >>
          /\ \E T \in AdminTexts :
                lower(strip(T)) = "/cancel" /\ AdminMessage(c, T)
       \/ /\ startswith(old, confirming_prefix)
          /\ new = << >>
          /\ \/ \E T \in AdminTexts :
                   lower(strip(T)) \in Negative /\ AdminMessage(c, T)
             \/ /\ AdminPopState
                /\ ret.fn = "process_broadcast_confirmation_text"
                /\ Response \in Affirmative

\* broadcast_message is called only by the handler of a confirming reply in
\* the confirming state, once, and the handler then returns the state to idle.
BroadcastOnlyOnConfirmation ==
    (b_pc = "idle" /\ b_pc' # "idle")
        => /\ ret.fn = "process_broadcast_confirmation_text"
           /\ Response \in Affirmative
           /\ startswith(AdminStateOf(ret.args[1]), confirming_prefix)
           /\ Cardinality(Broadcasts(mainq)) = 1
           /\ mainq[Len(mainq)] = Step("pop_admin_state", ret.args[1], "",
                                       None, "")

\* C26 as stated: the admin state of a chat changes only from idle to
\* awaiting_broadcast_text by the button admin_broadcast, from there to
\* confirming_broadcast:<text> by a text or to idle by /cancel, and from
\* confirming to idle by a confirming or cancelling reply; a broadcast runs
\* only on the confirming reply, once.
C26_StateChangesOnlyAlongTheMachine ==
    [][/\ \A c \in Chats :
             AdminStateAfter(c) # AdminStateOf(c) => AlongTheMachine(c, TRUE)
       /\ BroadcastOnlyOnConfirmation
      ]_vars

\* C26, amended: the button admin_broadcast leads to awaiting_broadcast_text
\* from every state, the confirming one included.
C26_StateChangesAlongTheMachineFromAnyState ==
    [][/\ \A c \in Chats :
             AdminStateAfter(c) # AdminStateOf(c) => AlongTheMachine(c, FALSE)
       /\ BroadcastOnlyOnConfirmation
      ]_vars

\* The handler of a confirming reply has run the broadcast and dropped the
\* state.
C26_Witness ==
    /\ ret.fn = "process_broadcast_confirmation_text"
    /\ ret.out.full_message # << >>
    /\ mainq = << >>
    /\ ADMIN_ID \notin DOMAIN admin_states
    /\ b_results.success > 0

\* C27: in the bot with all its handlers registered, the button
\* admin_broadcast pressed by the administrator sets the admin state to
\* awaiting_broadcast_text, and the administrator's next text goes to the
\* broadcast-text handler: /cancel returns the state to idle, another text T
\* sets it to confirming_broadcast:T and the confirmation is asked for.
C27_BroadcastButtonThenText ==
    [][/\ (check_admin(ADMIN_ID)
             /\ MainCallback(ADMIN_ID, "admin_broadcast", TRUE))
          => AdminStateAfter(ADMIN_ID) = awaiting_broadcast_text
       /\ \A T \in Texts :
             (/\ AdminStateOf(ADMIN_ID) = awaiting_broadcast_text
              /\ MainMessage(ADMIN_ID, T))
             => IF lower(strip(T)) = "/cancel"
                THEN AdminStateAfter(ADMIN_ID) = << >>
                ELSE /\ AdminStateAfter(ADMIN_ID) = confirming_broadcast(T)
                     /\ mainq' = << Send(ADMIN_ID, "confirm_broadcast") >>
      ]_vars

\* The replies that neither confirm nor cancel.
OtherReplies ==
    {T \in AdminTexts : lower(strip(T)) \notin Affirmative \cup Negative}

\* The administrator, in the confirming state, sends T, and the step leaves
\* the re-prompt to send, no broadcast to run, and the state as it was.
OnlyReprompts(T) ==
    (/\ startswith(AdminStateOf(ADMIN_ID), confirming_prefix)
     /\ AdminMessage(ADMIN_ID, T))
    => /\ mainq' = << Send(ADMIN_ID, "reply_not_understood") >>
       /\ admin_states' = admin_states
       /\ b_pc' = "idle"

\* C28 as stated: in the state confirming_broadcast:<text>, a reply that
\* after strip and lower is in neither set is answered with the re-prompt,
\* starts no broadcast and leaves the state, text included, unchanged.
C28_OtherReplyOnlyReprompts ==
    [][\A T \in OtherReplies : OnlyReprompts(T)]_vars

\* C28, amended: so for every such reply but the command /admin, which is
\* answered with the admin panel.
C28_OtherReplyButAdminOnlyReprompts ==
    [][\A T \in OtherReplies :
          extract_command(T) # "admin" => OnlyReprompts(T)]_vars

\* The re-prompt is the next thing to send, the state still confirming.
C28_Witness ==
    /\ ret.fn = "process_broadcast_confirmation_text"
    /\ ret.args[2] \in OtherReplies
    /\ mainq = << Send(ADMIN_ID, "reply_not_understood") >>
    /\ startswith(AdminStateOf(ADMIN_ID), confirming_prefix)

\* C29: the message broadcast_message sends to every recipient is the header
\* followed by exactly the text the administrator entered, and the text read
\* back out of the state confirming_broadcast:<text> is the text entered,
\* also when it holds ':'.
C29_DeliveredIsHeaderAndEnteredText ==
    /\ \A c \in DOMAIN admin_states :
          startswith(admin_states[c], confirming_prefix)
             => broadcast_text_of(admin_states[c]) = Chars(entered[c])
    /\ (ret.fn = "process_broadcast_confirmation_text"
            /\ ret.out.full_message # << >>)
          => ret.out.full_message = << "header" >> \o Chars(entered[ret.args[1]])

\* A text with two ':' was entered, confirmed, and delivered to a recipient.
C29_Witness ==
    /\ ret.fn = "process_broadcast_confirmation_text"
    /\ ret.out.full_message # << >>
    /\ Cardinality(Colons(Chars(entered[ADMIN_ID]))) = 2
    /\ b_pc = "done"
    /\ b_results.success > 0

\* C30: when a polling cycle ends, the cache holds every price the cycle
\* fetched, whatever happened to the chats it processed; and no step removes
\* a coin from the cache.
C30_FetchedPricesAreCached ==
    [][/\ (pc # "top" /\ pc' = "top" /\ slept' = 1)
          => \A coin \in DOMAIN prices :
                prices[coin] # None
                   => db_get_coin_price(coin_prices', coin) = prices[coin]
       /\ DOMAIN coin_prices \subseteq DOMAIN coin_prices'
      ]_vars

\* The cycle ends with this step: the loop is back at its top, asleep.
CycleEndsNow == pc # "top" /\ pc' = "top" /\ slept' = 1

\* The cycle holds a price for chat c that crosses the chat's threshold, and
\* the tests of lines 151 and 166 raise nothing for it.
ThresholdCrossed(c) ==
    /\ PriceFor(c) # None
    /\ ~BaselineCase(SettingsOf(c).balance, SettingsOf(c).last_notified_price)
    /\ ~RaisesTypeError(PriceFor(c), SettingsOf(c).last_notified_price,
                        SettingsOf(c).threshold, SettingsOf(c).depozit)
    /\ Crosses(PriceFor(c), SettingsOf(c).last_notified_price,
               SettingsOf(c).threshold)

\* C31: a failure that concerns one chat of a polling cycle keeps no other
\* chat from being processed: when the cycle ends, no chat of its snapshot
\* whose threshold the fetched price crosses is left without its
\* notification.
C31_OtherChatsStillNotified ==
    [][CycleEndsNow => \A c \in todo : ~ThresholdCrossed(c)]_vars

\* C32: the collection of the tracked coin ids fails under no interleaving
\* with insertions into and removals from the settings map by the main
\* thread: a cycle ends in its collection only by the `continue` for a map
\* that tracks no coin, never by an error of the iteration.
C32_CollectionNeverAbandoned ==
    [][(pc = "collecting" /\ CycleEndsNow)
          => ~iterDirty /\ DOMAIN user_settings = {}]_vars

\* C33: the loop of the price checker neither ends nor stalls: every cycle
\* it begins, also one that an error abandons, comes to the sleep at the top
\* of the loop, from where the next cycle can begin.
C33_EveryCycleComesToTheSleep ==
    (pc # "top") ~> (pc = "top")

\* The step of the cycle on chat c raises: KeyError at line 145 for a chat
\* that left the map, TypeError at line 151 or 166.
RaisesOn(c) ==
    /\ PriceFor(c) # None
    /\ IF BaselineCase(SettingsOf(c).balance, SettingsOf(c).last_notified_price)
       THEN c \notin DOMAIN user_settings
       ELSE RaisesTypeError(PriceFor(c), SettingsOf(c).last_notified_price,
                            SettingsOf(c).threshold, SettingsOf(c).depozit)

\* A cycle has come to a chat on which it raises.
C33_Witness ==
    /\ pc = "loop"
    /\ \E c \in todo : RaisesOn(c)

\* C34: a press of 'back to menu', whatever the chat's conversational state,
\* leaves the chat without a pending state and leaves every setting as it
\* was.
C34_BackToMenuClearsState ==
    [][\A c \in Chats, e \in BOOLEAN :
          MainCallback(c, "back_to_menu", e)
             => /\ c \notin DOMAIN user_states'
                /\ user_settings' = user_settings]_vars

\* The steps of main.py that have run, in their order.
Done == IF ret = NoCall THEN << >> ELSE ret.out.done

\* Step `later` has not run unless step `earlier` ran before it.
RanBefore(earlier, later) ==
    \A j \in 1..Len(Done) :
       Done[j] = later => \E i \in 1..(j - 1) : Done[i] = earlier

\* C35: the store is initialised before the settings are loaded, the settings
\* are loaded before the thread of the price checker starts, the thread
\* starts before the receive loop is entered, and no cycle of the price
\* checker runs before load_settings has run.
C35_StartupOrder ==
    /\ RanBefore("init_db", "load_settings")
    /\ RanBefore("load_settings", "price_thread.start")
    /\ RanBefore("price_thread.start", "infinity_polling")
    /\ pc # "top" => \E i \in 1..Len(Done) : Done[i] = "load_settings"

\* A cycle runs on the loaded map while the process is in the receive loop.
C35_Witness ==
    /\ ret # NoCall
    /\ ret.fn = "infinity_polling"
    /\ pc = "loop"
    /\ user_settings # EmptyMap
    /\ user_settings = load_all_user_settings(store)

\* C36: a row that a broadcast removed from the store because the chat
\* blocked the bot does not come back while the chat sends nothing: no cycle
\* of the price checker inserts it again.
C36_RemovedRowStaysRemoved ==
    [][\A c \in b_blocked :
          c \notin DOMAIN store => c \notin DOMAIN store']_vars

\* C37: every chat with a conversational state has a record in the in-memory
\* settings map.
C37_StateOnlyWithRecord ==
    DOMAIN user_states \subseteq DOMAIN user_settings

HandlerFor(state) ==
    CASE state = "awaiting_balance" -> "set_balance"
      [] state = "awaiting_threshold" -> "set_threshold"
      [] state = "awaiting_depozit" -> "set_depozit"

\* C39: a chat in an awaiting state sends a text.  /start and /menu go to
\* the welcome handler, whose statements leave the conversational state as it
\* was; every other text goes to the handler of the awaited value.
C39_CommandsKeepTheAwaitedState ==
    [][/\ \A c \in DOMAIN user_states, text \in Texts :
             MainMessage(c, text)
                => IF text \in {"/start", "/menu"}
                   THEN /\ DispatchMessage(c, text) = "send_welcome"
                        /\ user_states' = user_states
                   ELSE DispatchMessage(c, text) = HandlerFor(user_states[c])
       /\ (mainq # << >> /\ Head(mainq).msg = "welcome")
             => user_states' = user_states]_vars

\* The welcome handler is at work for a chat that is in an awaiting state.
C39_Witness ==
    /\ mainq # << >>
    /\ Head(mainq).msg = "welcome"
    /\ Head(mainq).chat \in DOMAIN user_states

====
